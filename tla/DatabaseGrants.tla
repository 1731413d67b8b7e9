--------------------------- MODULE DatabaseGrants ---------------------------
(***************************************************************************)
(* DatabaseReconciler: the database user of one client workload at every   *)
(* configured PostgreSQL and MySQL instance, its grants, and the annotation *)
(* that tells the credentials operator which instances the pod may use.    *)
(*                                                                         *)
(* It runs in the reconciler group of ClientIntents; of the group a pass   *)
(* here has its one object, the finalizer and the retry.  An instance      *)
(* takes several calls, each of which may fail and end the pass.           *)
(***************************************************************************)
EXTENDS Naturals, Sequences

CONSTANTS
    Postgres, MySQL,    \* the names of possible instances
    Databases, Tables,  \* the databases of every instance, and their tables
    Operations,         \* what may be granted on a table
    Specs,              \* what users may declare: sequences of privileges
    Configured,         \* instances configured from the start
    MaxChanges, MaxFaults   \* bounds: changes by users; failed calls

VARIABLES
    intents, intentsCache,  \* the ClientIntents of the workload
    configs,                \* instances with a server config
    users,                  \* instances at which the workload's user exists
    grants,                 \* what that user may do there
    pod, podCache,          \* the workload's pod: its instances, "none" or "bare"
    queued, pass,
    changes, faults

vars == <<intents, intentsCache, configs, users, grants, pod, podCache,
          queued, pass, changes, faults>>

Instances == Postgres \cup MySQL
AllTables == "*"     \* an entry without a table
Entries == [instance : Instances, database : Databases, table : Tables \cup {AllTables},
            operations : SUBSET (Operations \cup {"all"})]

\* Instances are of one kind; no table or operation is named like the wildcards.
ConstantsAssumption ==
    /\ Postgres \cap MySQL = {} /\ Configured \subseteq Instances
    /\ AllTables \notin Tables /\ "all" \notin Operations
    /\ Specs \subseteq Seq(Entries)
    /\ MaxChanges \in Nat /\ MaxFaults \in Nat

None == "none"       \* no object
NoIntents == [stage |-> None, spec |-> <<>>]

\* A pod: absent, without any annotation, or with these instances in its access
\* annotation, none of them if it has only others.
NoPod == [state |-> None, instances |-> {}]
BarePod == [state |-> "bare", instances |-> {}]
Annotated(instances) == [state |-> "annotated", instances |-> instances]

Idle == [pc |-> "idle"]

-----------------------------------------------------------------------------
(* Privileges.  An entry of a spec is a privilege: instance, database, table *)
(* and operations; a grant is a database, a table and one operation.       *)

\* GetGrantOperations: none, or "all" among others, is every operation.
GrantOperations(ops) == IF ops = {} \/ "all" \in ops THEN Operations ELSE ops

On(database, tables, ops) == [database : {database}, table : tables, operation : ops]

\* Some of the entries of a spec, each at its position there.
At(spec, i) == [n \in {m \in DOMAIN spec : spec[m].instance = i} |-> spec[n]]
In(entries, d) == [n \in {m \in DOMAIN entries : entries[m].database = d} |-> entries[n]]
First(entries, last) == [n \in {m \in DOMAIN entries : m <= last} |-> entries[n]]

Mentions(spec, i) == \E n \in DOMAIN spec : spec[n].instance = i
DatabasesOf(entries) == {entries[n].database : n \in DOMAIN entries}
TablesOf(entries) == {entries[n].table : n \in DOMAIN entries}

\* One entry's GRANT statements at PostgreSQL.
PostgresGranted(e) ==
    On(e.database, IF e.table = AllTables THEN Tables ELSE {e.table},
       GrantOperations(e.operations))

\* Mutant: the batch only grants.
PostgresOnlyGrants(found, entries) ==
    found \cup UNION {PostgresGranted(entries[n]) : n \in DOMAIN entries}

\* applyDatabasePermissions: one batch, in the order of the entries.  A table's
\* grants are revoked before the new ones are made, those of a whole database are
\* only added to.
PostgresApplied(found, entries) ==
    LET unrevoked(some, by) ==
            {g \in some : ~ \E n \in by : entries[n].database = g.database
                                        /\ entries[n].table = g.table}
        later(n) == {m \in DOMAIN entries : m > n} IN
    unrevoked(found, DOMAIN entries)
    \cup UNION {unrevoked(PostgresGranted(entries[n]), later(n)) : n \in DOMAIN entries}

\* getAllowedTablesDiffForUser: tables no entry names, unless one names them all.
PostgresExcess(found, database, entries) ==
    IF AllTables \in TablesOf(entries) THEN {}
    ELSE {g \in found : g.database = database /\ g.table \notin TablesOf(entries)}

\* revokeRemovedTablesPermissions: everything the user has on those tables.
PostgresKept(found, database, entries) == found \ PostgresExcess(found, database, entries)

\* applySQLPermissionsPermissions: MySQL keeps what is granted on a database apart
\* from what is granted on its tables.
MySQLApplied(found, entries) ==
    found \cup UNION {On(entries[i].database, {entries[i].table},
                         GrantOperations(entries[i].operations)) : i \in DOMAIN entries}

\* getDBLevelPrivilegesToRevoke and getTableLevelPrivilegesToRevoke: what no entry
\* for the very same table, or for the database as a whole, allows.
MySQLExcess(found, entries) ==
    {g \in found : ~ \E i \in DOMAIN entries :
        /\ entries[i].database = g.database /\ entries[i].table = g.table
        /\ g.operation \in GrantOperations(entries[i].operations)}

-----------------------------------------------------------------------------
Fault == faults < MaxFaults /\ faults' = faults + 1

Fail == pass' = Idle /\ queued' = TRUE

Grant(i, after) == grants' = [grants EXCEPT ![i] = after]

\* Instances are handled one after another, PostgreSQL first.
Coming(todo) == IF todo \cap Postgres # {} THEN todo \cap Postgres ELSE todo

\* The group makes sure of the finalizer; Reconcile reads the object and lists the
\* server configs.  Without a database among the targets nothing is done.
Begin ==
    /\ pass = Idle /\ queued
    /\ LET copy == intentsCache
           todo == IF copy.spec = <<>> THEN {} ELSE configs IN
       CASE copy.stage = None ->
              queued' = FALSE /\ UNCHANGED <<intents, pass>>
         [] copy.stage = "new" /\ intents # copy ->
              UNCHANGED <<queued, intents, pass>>
         [] OTHER ->
              /\ queued' = FALSE
              /\ intents' = IF copy.stage = "new" THEN [intents EXCEPT !.stage = "live"] ELSE intents
              /\ pass' = [pc |-> "instance", copy |-> copy, todo |-> todo]
    /\ UNCHANGED <<intentsCache, configs, users, grants, pod, podCache, changes, faults>>

\* applyPGDBInstanceIntents, applyMySQLDBInstanceIntents: connect, ask for the
\* user, and decide.  An instance without a user has nothing to clean up.
Connect(i) ==
    LET deleted == pass.copy.stage = "deleting" \/ ~Mentions(pass.copy.spec, i)
        at(pc) == [pc |-> pc, copy |-> pass.copy, todo |-> pass.todo \ {i}, instance |-> i,
                   databases |-> DatabasesOf(At(pass.copy.spec, i))] IN
    /\ pass.pc = "instance" /\ i \in Coming(pass.todo)
    /\ \/ /\ deleted /\ i \notin users
          /\ pass' = [pass EXCEPT !.todo = @ \ {i}]
          /\ UNCHANGED <<users, queued, faults>>
       \/ /\ deleted /\ i \in users
          /\ pass' = at("revoke")
          /\ UNCHANGED <<users, queued, faults>>
       \/ /\ ~deleted
          /\ users' = users \cup {i}   \* createDBUser, unless it exists
          /\ pass' = at("annotate")
          /\ UNCHANGED <<queued, faults>>
       \/ Fault /\ Fail /\ UNCHANGED users
    /\ UNCHANGED <<intents, intentsCache, configs, grants, pod, podCache, changes>>

\* RevokeAllDatabasePermissionsForUser: database after database at PostgreSQL; at
\* MySQL REVOKE ALL ON *.* takes global privileges, of which the user has none.
RevokeAll ==
    LET i == pass.instance IN
    /\ pass.pc = "revoke"
    /\ \/ /\ Grant(i, IF i \in Postgres THEN {} ELSE grants[i])
          /\ pass' = [pass EXCEPT !.pc = "drop"]
          /\ UNCHANGED <<queued, faults>>
       \/ /\ Fault
          /\ \E done \in SUBSET {g.database : g \in grants[i]} :
                Grant(i, IF i \in Postgres THEN {g \in grants[i] : g.database \notin done}
                         ELSE grants[i])
          /\ Fail
    /\ UNCHANGED <<intents, intentsCache, configs, users, pod, podCache, changes>>

\* DropUser: PostgreSQL refuses it while the user has grants.
DropUser ==
    LET i == pass.instance IN
    /\ pass.pc = "drop"
    /\ \/ /\ i \in Postgres => grants[i] = {}
          /\ users' = users \ {i}
          /\ Grant(i, {})
          /\ pass' = [pass EXCEPT !.pc = "annotate"]
          /\ UNCHANGED <<queued, faults>>
       \/ Fault /\ Fail /\ UNCHANGED <<users, grants>>
    /\ UNCHANGED <<intents, intentsCache, configs, pod, podCache, changes>>

\* handleDatabaseAnnotationOnPod: the patch is made against the cached pod, so it
\* sets the annotation to what was cached and the instance at hand.
Annotate ==
    LET i == pass.instance
        wanted == IF pass.copy.stage = "deleting" THEN {} ELSE podCache.instances \cup {i}
        grant == pass.copy.stage # "deleting" /\ Mentions(pass.copy.spec, i) IN
    /\ pass.pc = "annotate"
    /\ \/ /\ podCache = NoPod \/ pod # NoPod
          /\ pod' = IF podCache = NoPod \/ wanted = podCache.instances THEN pod
                    ELSE Annotated(wanted)
          /\ pass' = IF grant THEN [pass EXCEPT !.pc = "grant"]
                     ELSE [pc |-> "instance", copy |-> pass.copy, todo |-> pass.todo]
          /\ UNCHANGED <<queued, faults>>
       \/ Fault /\ Fail /\ UNCHANGED pod
    /\ UNCHANGED <<intents, intentsCache, configs, users, grants, podCache, changes>>

\* ApplyDatabasePermissionsForUser: the range over a map of databases.  At
\* PostgreSQL a batch of statements is one transaction, and the tables no longer
\* named are revoked in a second; at MySQL every statement counts.
GrantDatabase(d) ==
    LET i == pass.instance
        entries == In(At(pass.copy.spec, i), d)
        applied == PostgresApplied(grants[i], entries) IN
    /\ pass.pc = "grant" /\ d \in pass.databases
    /\ \/ /\ Grant(i, IF i \in Postgres THEN PostgresKept(applied, d, entries)
                      ELSE MySQLApplied(grants[i], entries))
          /\ pass' = [pass EXCEPT !.databases = @ \ {d}]
          /\ UNCHANGED <<queued, faults>>
       \/ /\ Fault
          /\ \E part \in IF i \in Postgres THEN {grants[i], applied}
                         ELSE {MySQLApplied(grants[i], First(entries, n)) : n \in 0 .. Len(pass.copy.spec)} :
                Grant(i, part)
          /\ Fail
    /\ UNCHANGED <<intents, intentsCache, configs, users, pod, podCache, changes>>

\* What the intents no longer mention: whole databases at PostgreSQL, databases
\* and tables at MySQL, one statement after another.
RevokeExcess ==
    LET i == pass.instance
        entries == At(pass.copy.spec, i)
        excess == IF i \in Postgres
                  THEN {g \in grants[i] : g.database \notin DatabasesOf(entries)}
                  ELSE MySQLExcess(grants[i], entries) IN
    /\ pass.pc = "grant" /\ pass.databases = {}
    /\ \/ /\ Grant(i, grants[i] \ excess)
          /\ pass' = [pc |-> "instance", copy |-> pass.copy, todo |-> pass.todo]
          /\ UNCHANGED <<queued, faults>>
       \/ /\ Fault
          /\ \E part \in SUBSET excess : Grant(i, grants[i] \ part)
          /\ Fail
    /\ UNCHANGED <<intents, intentsCache, configs, users, pod, podCache, changes>>

\* All instances are done; the group drops the finalizer of a deleted object.
End ==
    LET release == pass.copy.stage = "deleting" IN
    /\ pass.pc = "instance" /\ pass.todo = {}
    /\ pass' = Idle
    /\ IF release /\ intents = pass.copy
       THEN intents' = NoIntents /\ UNCHANGED queued
       ELSE queued' = (queued \/ (release /\ intents.stage # None)) /\ UNCHANGED intents
    /\ UNCHANGED <<intentsCache, configs, users, grants, pod, podCache, changes, faults>>

-----------------------------------------------------------------------------
(* Users and informers.                                                    *)

Change == changes < MaxChanges /\ changes' = changes + 1

ChangeIntents ==
    /\ Change
    /\ \/ \E spec \in Specs :
            /\ intents.stage # "deleting" /\ intents.spec # spec
            /\ intents' = [stage |-> IF intents.stage = None THEN "new" ELSE intents.stage,
                           spec |-> spec]
       \/ /\ intents.stage = "live"
          /\ intents' = [intents EXCEPT !.stage = "deleting"]
    /\ UNCHANGED <<intentsCache, configs, users, grants, pod, podCache, queued, pass, faults>>

\* mapPostgresInstanceNameToDatabaseIntents: a new PostgreSQLServerConfig is an
\* event of the ClientIntents that name it; a MySQLServerConfig is of none.
Configure(i) ==
    /\ Change /\ i \notin configs
    /\ configs' = configs \cup {i}
    /\ queued' = (queued \/ (i \in Postgres /\ Mentions(intentsCache.spec, i)))
    /\ UNCHANGED <<intents, intentsCache, users, grants, pod, podCache, pass, faults>>

\* A pod of the workload is replaced, or starts.
StartPod ==
    /\ Change
    /\ pod' \in {BarePod, Annotated({})}
    /\ UNCHANGED <<intents, intentsCache, configs, users, grants, podCache, queued, pass, faults>>

SyncIntents ==
    /\ intentsCache # intents
    /\ intentsCache' = intents
    /\ queued' = TRUE
    /\ UNCHANGED <<intents, configs, users, grants, pod, podCache, pass, changes, faults>>

\* PodWatcher.handleDatabaseIntents: a pod that has annotations but not this one
\* starts a pass over the workload's database intents.
SyncPod ==
    /\ podCache # pod
    /\ podCache' = pod
    /\ queued' = (queued \/ (pod = Annotated({}) /\ intentsCache.spec # <<>>))
    /\ UNCHANGED <<intents, intentsCache, configs, users, grants, pod, pass, changes, faults>>

-----------------------------------------------------------------------------
Init ==
    /\ intents = NoIntents /\ intentsCache = NoIntents
    /\ configs = Configured
    /\ users = {} /\ grants = [i \in Instances |-> {}]
    /\ pod = NoPod /\ podCache = NoPod
    /\ queued = FALSE /\ pass = Idle
    /\ changes = 0 /\ faults = 0

Step == \/ Begin \/ RevokeAll \/ DropUser \/ Annotate \/ RevokeExcess \/ End
        \/ \E i \in Instances : Connect(i)
        \/ pass.pc = "grant" /\ \E d \in pass.databases : GrantDatabase(d)
Sync == SyncIntents \/ SyncPod
Users == ChangeIntents \/ StartPod \/ \E i \in Instances : Configure(i)

Next == Step \/ Sync \/ Users

\* Without fairness, which is stated where it is run.
Spec == Init /\ [][Next]_vars

-----------------------------------------------------------------------------
(* Properties.                                                             *)

TypeOK ==
    /\ intents.stage \in {None, "new", "live", "deleting"}
    /\ configs \subseteq Instances /\ users \subseteq configs
    /\ \A i \in Instances \ users : grants[i] = {}
    /\ \A i \in Instances : \A g \in grants[i] :
         g.operation \in Operations /\ g.table \in Tables \cup (IF i \in MySQL THEN {AllTables} ELSE {})
    /\ pod.instances \subseteq configs
    /\ queued \in BOOLEAN

AtRest == ~queued /\ pass = Idle /\ intents = intentsCache /\ pod = podCache

\* What the entries ask for, with no regard to how it is granted.
Declared(i, entries) ==
    UNION {On(entries[n].database,
              IF entries[n].table = AllTables /\ i \in Postgres THEN Tables ELSE {entries[n].table},
              GrantOperations(entries[n].operations)) : n \in DOMAIN entries}

\* With nothing left to do, the workload's user may do at a configured instance
\* exactly what its live intents say, whatever earlier intents and failed passes
\* left, and has no user where they say nothing.  That is for intents that name a
\* database, and at PostgreSQL every table once and none as a whole: of two entries
\* for a table one may be lost there, and a grant on all tables is never taken back.
GrantsMatchAtRest ==
    AtRest /\ intents.stage = "live" /\ intents.spec # <<>> =>
        \A i \in configs :
            LET entries == At(intents.spec, i) IN
            IF ~Mentions(intents.spec, i) THEN i \notin users
            ELSE i \in MySQL \/ (AllTables \notin TablesOf(entries)
                                 /\ \A m, n \in DOMAIN entries :
                                      entries[m].database = entries[n].database
                                      /\ entries[m].table = entries[n].table => m = n)
                 => grants[i] = Declared(i, entries)

=============================================================================

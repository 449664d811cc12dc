----------------------------- MODULE Migrations -----------------------------
(***************************************************************************)
(* The schema of the database, and the servers that bring it up to date    *)
(* when they start.  A server runs the migrations that the ledger lacks,   *)
(* one statement after the other, and enters each into the ledger when it  *)
(* is through.  MySQL commits every statement that changes a table on its  *)
(* own, so a server that dies within a migration leaves it half done, and  *)
(* the next server runs it from its beginning.                             *)
(* The statements are those of MigrationList.                              *)
(***************************************************************************)
EXTENDS Naturals, FiniteSets, Sequences

CONSTANTS Servers,      \* processes that start: app, tenant, platform, indexer
          NoServer,
          Steps,        \* the statements of each migration, by number
          FirstNumber, SeedNumber,  \* the first one, and the texts brought up to date after the last
          NotRepeatable,    \* migrations that do not stand an interruption
          Complete,     \* the schema that all of them make
          Deployed,     \* a database has the migrations up to this number,
          InitialSchema,\* and this schema
          MaxDeaths,    \* bound: servers that die while they migrate
          MaxLosses     \* bound: connections that break and take the lock with them

VARIABLES schema,       \* what the database has
          ledger,       \* schema_migrations: the numbers of the migrations that are through
          lock,         \* who has GET_LOCK
          servers,      \* phase, and the migration and statement a server is at
          interrupted,  \* auxiliary: those of NotRepeatable in which a server died
          failed,       \* auxiliary: the migrations in which a statement failed
          crowded,      \* auxiliary: two servers have migrated at a time
          deaths, losses

vars == <<schema, ledger, lock, servers, interrupted, failed, crowded, deaths, losses>>

Numbers == FirstNumber..(SeedNumber - 1)

Down == [phase |-> "down", number |-> 0, step |-> 0]
Waiting == [Down EXCEPT !.phase = "waiting"]
Serving == [Down EXCEPT !.phase = "serving"]
At(number, step) == [phase |-> "migrating", number |-> number, step |-> step]
Migrating == {s \in Servers : servers[s].phase = "migrating"}

TypeOK ==
    /\ ledger \subseteq Numbers /\ interrupted \subseteq NotRepeatable /\ failed \subseteq Numbers
    /\ lock \in Servers \cup {NoServer}
    /\ \A s \in Servers : servers[s] \in {Down, Waiting, Serving}
                           \/ /\ servers[s].phase = "migrating"
                              /\ servers[s].number \in Numbers \cup {SeedNumber}
                              /\ servers[s].step \in Nat
    /\ crowded \in BOOLEAN /\ deaths \in 0..MaxDeaths /\ losses \in 0..MaxLosses

(* An empty database, or one that has the migrations up to Deployed.       *)
Init ==
    /\ ledger = {n \in Numbers : n <= Deployed}
    /\ schema = InitialSchema
    /\ lock = NoServer
    /\ servers = [s \in Servers |-> Down]
    /\ interrupted = {} /\ failed = {} /\ crowded = FALSE
    /\ deaths = 0 /\ losses = 0

(* A process starts and asks for the lock, for half a minute.              *)
Start(s) ==
    /\ servers[s] = Down
    /\ servers' = [servers EXCEPT ![s] = Waiting]
    /\ UNCHANGED <<schema, ledger, lock, interrupted, failed, crowded, deaths, losses>>

TakeLock(s) ==
    /\ servers[s] = Waiting /\ lock = NoServer
    /\ lock' = s
    /\ servers' = [servers EXCEPT ![s] = At(FirstNumber, 0)]
    /\ crowded' = (crowded \/ Migrating # {})
    /\ UNCHANGED <<schema, ledger, interrupted, failed, deaths, losses>>

GiveUp(s) ==
    /\ servers[s] = Waiting /\ lock # NoServer
    /\ servers' = [servers EXCEPT ![s] = Down]
    /\ UNCHANGED <<schema, ledger, lock, interrupted, failed, crowded, deaths, losses>>

(* A process that ends takes its connections, and so its lock, with it.    *)
Released(s) == IF lock = s THEN NoServer ELSE lock

(* The ledger is read before every migration.  It only grows, so that the  *)
(* migrations that are in it are passed over at once.                      *)
Lacking(n) == (n..SeedNumber) \ ledger
ReadLedger(s) ==
    /\ servers[s].phase = "migrating" /\ servers[s].step = 0
    /\ servers[s].number \in Numbers
    /\ LET n == CHOOSE m \in Lacking(servers[s].number) :
                 \A k \in Lacking(servers[s].number) : m <= k
       IN
       servers' = [servers EXCEPT ![s] = At(n, IF n \in Numbers THEN 1 ELSE 0)]
    /\ UNCHANGED <<schema, ledger, lock, interrupted, failed, crowded, deaths, losses>>

LeftOut(statement) ==
    \/ statement.found \cap schema # {}
    \/ statement.absent # {} /\ statement.absent \cap schema = {}
Possible(statement) == statement.needs \subseteq schema /\ statement.adds \cap (schema \ statement.loses) = {}

Apply(s) ==
    LET n == servers[s].number
        i == servers[s].step
    IN  /\ servers[s].phase = "migrating" /\ n \in Numbers
        /\ i \in DOMAIN Steps[n]
        /\ LET statement == Steps[n][i] IN
           IF LeftOut(statement)
           THEN /\ servers' = [servers EXCEPT ![s] = At(n, i + 1 + statement.jump)]
                /\ UNCHANGED <<schema, lock, failed>>
           ELSE IF Possible(statement)
           THEN /\ schema' = (schema \ statement.loses) \cup statement.adds \cup statement.leaves
                /\ servers' = [servers EXCEPT ![s] = At(n, i + 1)]
                /\ UNCHANGED <<lock, failed>>
           ELSE /\ servers' = [servers EXCEPT ![s] = Down]     \* the process ends with an error
                /\ lock' = Released(s)
                /\ failed' = failed \cup {n}
                /\ UNCHANGED schema
        /\ UNCHANGED <<ledger, interrupted, crowded, deaths, losses>>

(* The number is the key of the ledger.                                    *)
Record(s) ==
    LET n == servers[s].number IN
    /\ servers[s].phase = "migrating" /\ n \in Numbers
    /\ servers[s].step = Len(Steps[n]) + 1
    /\ IF n \in ledger
       THEN /\ servers' = [servers EXCEPT ![s] = Down]
            /\ lock' = Released(s)
            /\ UNCHANGED ledger
       ELSE /\ ledger' = ledger \cup {n}
            /\ servers' = [servers EXCEPT ![s] = At(n + 1, 0)]
            /\ UNCHANGED lock
    /\ UNCHANGED <<schema, interrupted, failed, crowded, deaths, losses>>

(* The texts of the app, in one transaction, at every start; then the lock *)
(* is released and the process serves.                                     *)
Seed(s) ==
    /\ servers[s].phase = "migrating" /\ servers[s].number = SeedNumber
    /\ schema' = schema \cup {"texts"}
    /\ servers' = [servers EXCEPT ![s] = Serving]
    /\ lock' = Released(s)
    /\ UNCHANGED <<ledger, interrupted, failed, crowded, deaths, losses>>

(* A process is killed, or its time for all migrations is up.              *)
Die(s) ==
    /\ servers[s].phase = "migrating"
    /\ deaths < MaxDeaths
    /\ servers' = [servers EXCEPT ![s] = Down]
    /\ lock' = Released(s)
    /\ interrupted' = interrupted \cup ({servers[s].number} \cap NotRepeatable)
    /\ deaths' = deaths + 1
    /\ UNCHANGED <<schema, ledger, failed, crowded, losses>>

(* The connection with the lock breaks between two statements: the pool    *)
(* opens another one, and the server goes on without the lock.             *)
LoseConnection(s) ==
    /\ servers[s].phase = "migrating" /\ lock = s
    /\ losses < MaxLosses
    /\ lock' = NoServer
    /\ losses' = losses + 1
    /\ UNCHANGED <<schema, ledger, servers, interrupted, failed, crowded, deaths>>

Next ==
    \E s \in Servers :
        \/ Start(s) \/ TakeLock(s) \/ GiveUp(s) \/ ReadLedger(s) \/ Apply(s) \/ Record(s)
        \/ Seed(s) \/ Die(s) \/ LoseConnection(s)

Spec == Init /\ [][Next]_vars

-----------------------------------------------------------------------------
(* Whatever interrupts them, the migrations can be run again: none fails   *)
(* later but in consequence of an interruption within one of the above, as *)
(* the comments on the referral migrations and on the backups demand       *)
(* (store/migrations.go:1725 and 1883).                                    *)
Repeatable == failed # {} /\ ~crowded => interrupted # {}

(* A server that serves has the whole schema behind it, whoever made which *)
(* part of it.                                                             *)
ServingIsComplete ==
    (\E s \in Servers : servers[s] = Serving) => schema = Complete /\ ledger = Numbers

(* The ledger has no gaps, and two servers migrate at a time only after a  *)
(* connection was lost.                                                    *)
LedgerIsInOrder == \A n \in ledger : \A m \in Numbers : m < n => m \in ledger
OneMigratesAtATime == losses = 0 => Cardinality(Migrating) <= 1
=============================================================================

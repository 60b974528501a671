--------------------------- MODULE TenantDatabases ---------------------------
(***************************************************************************)
(* The commands that make and migrate the databases of tenants: provision  *)
(* (create-tenant.ts), migrate-all under a session advisory lock, and the  *)
(* two that take no lock, the tenant migrations by themselves and          *)
(* create-owner.  Several operators run them at once, each on the image of *)
(* some release; any of them may fail at every call or be killed.          *)
(***************************************************************************)
EXTENDS Naturals, Sequences, SequencesExt

CONSTANTS
    Codes,       \* tenant codes; a code is also the name of its database
    Emails,      \* accounts in the control database
    Operators,   \* processes that run a command
    Latest,      \* bound: releases 1 .. Latest; release r brings migration r
    Nobody

ASSUME DatabasesAssumption ==
    Latest \in Nat \ {0} /\ Nobody \notin Operators

VARIABLES
    databases,   \* PostgreSQL's databases: [schema, version, broken, by]
    registry,    \* control: tenants in the order of registration
    owners,      \* control: OWNER memberships of each tenant
    accounts,    \* control: users
    advisory,    \* the session that holds MIGRATION_LOCK
    runner       \* what each operator's process does

databaseVars == <<databases, registry, owners, accounts, advisory, runner>>

Registered == ToSet(registry)

Releases == 1 .. Latest

Idle == [at |-> "IDLE", code |-> "", email |-> "", known |-> {}, mine |-> FALSE, image |-> 0, list |-> << >>, n |-> 0]

Steps == {"IDLE", "CREATE", "INSPECT", "BASELINE", "DEPLOY", "REGISTER", "CLEANUP", "DROP", "CONTROL", "LIST"}

Database(schema, version, p) == [schema |-> schema, version |-> version, broken |-> FALSE, by |-> p]

With(f, key, value) == [x \in DOMAIN f \cup {key} |-> IF x = key THEN value ELSE f[x]]

\* Legacy databases were migrated by the retired runner; a foreign one has
\* tables that nothing knows.  Bound: one registered tenant, of any of the
\* three kinds that can be, beside a database that no tenant has.
DatabasesInit ==
    \E old \in Codes, other \in Codes, kind \in {<<"LEGACY", 1>>, <<"LEDGER", 1>>, <<"FOREIGN", 0>>}, email \in Emails :
        /\ old # other
        /\ \E names \in {{old}, {old, other}} :
              databases = [d \in names |-> IF d = old THEN Database(kind[1], kind[2], Nobody)
                                           ELSE Database("FOREIGN", 0, Nobody)]
        /\ registry = <<old>>
        /\ owners = [d \in {old} |-> {email}]
        /\ accounts = {email}
        /\ advisory = Nobody
        /\ runner = [p \in Operators |-> Idle]

At(p, step) == runner[p].at = step

Goes(p, step) == runner' = [runner EXCEPT ![p].at = step]

\* The process is gone, with its session and what it knew.
Over(p) ==
    /\ runner' = [runner EXCEPT ![p] = Idle]
    /\ advisory' = IF advisory = p THEN Nobody ELSE advisory

\* The database that p is migrating: the one it makes, or the next of its list.
Target(p) == IF runner[p].list = << >> THEN runner[p].code ELSE runner[p].list[runner[p].n]

-----------------------------------------------------------------------------
(* migrate deploy *)

\* The catalog of the retired runner's one migration, column by column.
LegacyCatalog(d) == databases[d].schema = "LEGACY"

\* Tables without a Prisma ledger are refused unless they are the legacy ones.
Baselinable(d) == databases[d].schema \in {"EMPTY", "LEDGER"} \/ LegacyCatalog(d)

\* A database ready for the release, p's next step: register its tenant, or go on.
Deployed(p) ==
    IF runner[p].list = << >> THEN Goes(p, "REGISTER") /\ UNCHANGED advisory
    ELSE IF runner[p].n = Len(runner[p].list) THEN Over(p)
    ELSE /\ runner' = [runner EXCEPT ![p].at = "INSPECT", ![p].n = @ + 1]
         /\ UNCHANGED advisory

\* Provisioning cleans up after an error, migrations stop at the first one.
Fails(p) ==
    IF runner[p].mine THEN Goes(p, "CLEANUP") /\ UNCHANGED advisory ELSE Over(p)

\* Mutation: one tenant's failure does not stop the others.
Skips(p) == IF runner[p].list # << >> THEN Deployed(p) ELSE Fails(p)

DeployFails(p) == Fails(p)

\* tenantDatabaseState, and the refusal of an unknown schema.
Inspect(p) ==
    /\ At(p, "INSPECT")
    /\ \/ /\ Baselinable(Target(p))
          /\ Goes(p, IF LegacyCatalog(Target(p)) THEN "BASELINE" ELSE "DEPLOY")
          /\ UNCHANGED advisory
       \/ DeployFails(p)
    /\ UNCHANGED <<databases, registry, owners, accounts>>

\* migrate resolve: the first migration is recorded as applied, once.
Baseline(p) ==
    /\ At(p, "BASELINE")
    /\ \/ /\ databases[Target(p)].schema = "LEGACY"
          /\ databases' = [databases EXCEPT ![Target(p)].schema = "LEDGER"]
          /\ Goes(p, "DEPLOY") /\ UNCHANGED advisory
       \/ DeployFails(p) /\ UNCHANGED databases
    /\ UNCHANGED <<registry, owners, accounts>>

\* The migrations of a ledger up to one that fails: it stays on record as failed
\* and Prisma applies nothing more until someone resolves it.
Partly(d, version) == [databases EXCEPT ![d].schema = "LEDGER", ![d].version = version, ![d].broken = TRUE]

Behind(d, image) == {v \in 0 .. image : databases[d].version <= v /\ v < image}

\* Migrations that the image does not have are left alone.
Deploy(p) ==
    /\ At(p, "DEPLOY")
    /\ LET d == Target(p)
           image == runner[p].image
       IN \/ /\ ~databases[d].broken
             /\ databases' = [databases EXCEPT ![d].schema = "LEDGER", ![d].version = IF image > @ THEN image ELSE @]
             /\ Deployed(p)
          \/ /\ ~databases[d].broken
             /\ \E v \in Behind(d, image) : databases' = Partly(d, v)
             /\ DeployFails(p)
          \/ DeployFails(p) /\ UNCHANGED databases
    /\ UNCHANGED <<registry, owners, accounts>>

\* "Fix the failed state and rerun the migration."
Repair ==
    /\ \E d \in DOMAIN databases : databases[d].broken /\ databases' = [databases EXCEPT ![d].broken = FALSE]
    /\ UNCHANGED <<registry, owners, accounts, advisory, runner>>

-----------------------------------------------------------------------------
(* provisionTenant *)

\* It looks up its owner's account at once, and goes by that when it registers.
Provision(p) ==
    \E code \in Codes \ Registered, email \in Emails, image \in Releases :
        /\ At(p, "IDLE")
        /\ runner' = [runner EXCEPT ![p] = [Idle EXCEPT !.at = "CREATE", !.code = code, !.email = email,
                                                        !.known = {email} \cap accounts, !.image = image]]
        /\ UNCHANGED <<databases, registry, owners, accounts, advisory>>

\* Mutation: a database that is there already will do.
OpenDatabase(p) ==
    /\ databases' = With(databases, runner[p].code, Database("EMPTY", 0, p))
    /\ runner' = [runner EXCEPT ![p].at = "INSPECT", ![p].mine = TRUE]
    /\ UNCHANGED advisory

MakeDatabase(p) ==
    /\ runner[p].code \notin DOMAIN databases
    /\ databases' = With(databases, runner[p].code, Database("EMPTY", 0, p))
    /\ runner' = [runner EXCEPT ![p].at = "INSPECT", ![p].mine = TRUE]
    /\ UNCHANGED advisory

\* Refused for a database that exists, or not reached; and if only the answer is
\* lost, the database is there and p does not know that it is its own.
CreateDatabase(p) ==
    /\ At(p, "CREATE")
    /\ \/ MakeDatabase(p)
       \/ Over(p) /\ UNCHANGED databases
       \/ /\ runner[p].code \notin DOMAIN databases
          /\ databases' = With(databases, runner[p].code, Database("EMPTY", 0, Nobody))
          /\ Over(p)
    /\ UNCHANGED <<registry, owners, accounts>>

\* A user unless there was one, the tenant and its OWNER, in one transaction:
\* refused when either is there by now, not reached, or its answer is lost.
Register(p) ==
    /\ At(p, "REGISTER")
    /\ LET code == runner[p].code
           email == runner[p].email
       IN \/ /\ code \notin Registered /\ (runner[p].known = {} => email \notin accounts)
             /\ registry' = Append(registry, code)
             /\ owners' = With(owners, code, {email})
             /\ accounts' = accounts \cup {email}
             /\ Over(p) \/ Fails(p)
          \/ Fails(p) /\ UNCHANGED <<registry, owners, accounts>>
    /\ UNCHANGED databases

\* Mutation: what failed is dropped without a look at the registry.
DropAtOnce(p) == Goes(p, "DROP") /\ UNCHANGED advisory

CleanupReads(p) ==
    IF runner[p].code \in Registered THEN Over(p) ELSE Goes(p, "DROP") /\ UNCHANGED advisory

\* The registry is read first; that may fail too.
Cleanup(p) ==
    /\ At(p, "CLEANUP")
    /\ CleanupReads(p) \/ Over(p)
    /\ UNCHANGED <<databases, registry, owners, accounts>>

Drop(p) ==
    /\ At(p, "DROP")
    /\ \/ databases' = [d \in DOMAIN databases \ {runner[p].code} |-> databases[d]]
       \/ UNCHANGED databases
    /\ Over(p)
    /\ UNCHANGED <<registry, owners, accounts>>

-----------------------------------------------------------------------------
(* migrate-all, the tenant migrations alone, create-owner *)

\* Mutation: the answer of pg_try_advisory_lock is not looked at.
Ignore(p) == advisory' = p

TryLock(p) == advisory = Nobody /\ advisory' = p

MigrateAll(p) ==
    \E image \in Releases :
        /\ At(p, "IDLE")
        /\ TryLock(p)
        /\ runner' = [runner EXCEPT ![p] = [Idle EXCEPT !.at = "CONTROL", !.image = image]]
        /\ UNCHANGED <<databases, registry, owners, accounts>>

\* The migrations of the control database (none changes what is modelled here).
MigrateControl(p) ==
    /\ At(p, "CONTROL")
    /\ \/ Goes(p, "LIST") /\ UNCHANGED advisory
       \/ Over(p)
    /\ UNCHANGED <<databases, registry, owners, accounts>>

MigrateTenants(p) ==
    \E image \in Releases :
        /\ At(p, "IDLE")
        /\ runner' = [runner EXCEPT ![p] = [Idle EXCEPT !.at = "LIST", !.image = image]]
        /\ UNCHANGED <<databases, registry, owners, accounts, advisory>>

\* There is always a tenant, the one of the control baseline.
ListTenants(p) ==
    /\ At(p, "LIST")
    /\ runner' = [runner EXCEPT ![p].at = "INSPECT", ![p].list = registry, ![p].n = 1]
    /\ UNCHANGED <<databases, registry, owners, accounts, advisory>>

CreateOwner ==
    /\ \E code \in Registered, email \in Emails :
        /\ accounts' = accounts \cup {email}
        /\ owners' = [owners EXCEPT ![code] = @ \cup {email}]
    /\ UNCHANGED <<databases, registry, advisory, runner>>

\* Killed; a migration under way is left as failed, or not begun.  (Prisma runs
\* in a process of its own; that it may outlive its parent is not modelled.)
Crash(p) ==
    /\ ~At(p, "IDLE")
    /\ Over(p)
    /\ \/ UNCHANGED databases
       \/ /\ At(p, "DEPLOY") /\ ~databases[Target(p)].broken
          /\ \E v \in Behind(Target(p), runner[p].image) : databases' = Partly(Target(p), v)
    /\ UNCHANGED <<registry, owners, accounts>>

DatabasesNext ==
    \/ Repair \/ CreateOwner
    \/ \E p \in Operators :
        \/ Provision(p) \/ CreateDatabase(p) \/ Register(p) \/ Cleanup(p) \/ Drop(p)
        \/ MigrateAll(p) \/ MigrateControl(p) \/ MigrateTenants(p) \/ ListTenants(p)
        \/ Inspect(p) \/ Baseline(p) \/ Deploy(p) \/ Crash(p)

DatabasesSpec == DatabasesInit /\ [][DatabasesNext]_databaseVars

-----------------------------------------------------------------------------
(* Properties *)

\* Types; a tenant is registered once, and the session that holds the advisory
\* lock is the only migrate-all that runs.
DatabasesTypeOK ==
    /\ \A d \in DOMAIN databases :
        /\ databases[d].schema \in {"EMPTY", "LEGACY", "FOREIGN", "LEDGER"}
        /\ databases[d].version \in 0 .. Latest
    /\ IsInjective(registry)
    /\ \A p \in Operators :
        /\ runner[p].at \in Steps
        /\ runner[p].at = "CONTROL" => advisory = p

\* A tenant is published only with a database that carries its schema and with
\* an owner who has an account, and no cleanup takes the database away again,
\* also when the answer of the registration was lost.
PublishedIsReady ==
    \A code \in Registered :
        /\ code \in DOMAIN databases /\ databases[code].schema # "EMPTY"
        /\ owners[code] # {} /\ owners[code] \subseteq accounts

\* A database no tenant has is changed or dropped only by the command that made
\* it: what a killed or half-failed provisioning left behind is never adopted,
\* migrated or dropped by a later one.
UnregisteredUntouched ==
    [][\A d \in DOMAIN databases \ Registered :
        \/ d \in DOMAIN databases' /\ databases'[d] \in {databases[d], [databases[d] EXCEPT !.broken = FALSE]}
        \/ \E p \in Operators : databases[d].by = p /\ runner[p].code = d /\ runner[p].mine]_databaseVars

\* A migration run has every tenant it went past at its release, whatever others
\* provision, migrate or break meanwhile, and stops at the first it cannot bring
\* there.
PassedAreMigrated ==
    \A p \in Operators : \A k \in 1 .. runner[p].n - 1 :
        LET d == runner[p].list[k]
        IN d \in DOMAIN databases /\ databases[d].schema = "LEDGER" /\ databases[d].version >= runner[p].image


\* Databases that are published, passed by, or nobody's, in one.
DatabasesSafe == [](DatabasesTypeOK /\ PublishedIsReady /\ PassedAreMigrated) /\ UnregisteredUntouched

=============================================================================

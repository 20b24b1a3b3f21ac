------------------------------- MODULE Manifest -------------------------------
(* The migration manifest a build embeds for each scope of the database: its *)
(* migrations, the objects it owns and the privileges it declares for the    *)
(* application role (adapters/postgres/migration/manifest.go).  The list     *)
(* fields of a manifest are sets here, so what the code says of duplicates   *)
(* in them has no counterpart; a migration's checksum is its content.        *)
EXTENDS Naturals, Sequences

MigrationSchemaName == "stacks_migrations"

SchemaObject(s) == [kind |-> "schema", schema |-> s, name |-> s]

TableObject(s, t) == [kind |-> "table", schema |-> s, name |-> t]

MigrationSchema == SchemaObject(MigrationSchemaName)

\* The ledger of a manifest is a table of the schema all scopes share.
LedgerTable(m) == TableObject(MigrationSchemaName, m.ledger)

Owns(m, o) == o.schema \in m.trees \/ o \in m.objects

\* What the static reading of a migration's SQL finds: indexes, columns and
\* constraints are created without being seen.
CreatedObjects(migration) ==
  {o \in migration.creates : o.kind \in {"schema", "table", "function", "trigger"}}

OrderedMigrations(m) ==
  /\ m.migrations # <<>>
  /\ \A i \in DOMAIN m.migrations : 0 < m.migrations[i].version
  /\ \A i, j \in DOMAIN m.migrations :
       i < j => /\ m.migrations[i].version < m.migrations[j].version
                /\ m.migrations[i].name # m.migrations[j].name

ValidOwnership(m) ==
  \A o \in m.objects :
    /\ o.kind \in {"schema", "table", "function", "trigger"}
    /\ o.kind = "schema" => o.name = o.schema
    /\ o.schema \notin m.trees

IsLedgerGrant(m, g) ==
  g.object = LedgerTable(m) /\ g.privileges = {"SELECT"} /\ g.columns = {}

\* A schema is granted USAGE; a table SELECT, INSERT, and UPDATE of the columns
\* the grant names.
ValidGrants(m) ==
  /\ \A g \in m.grants :
       /\ g.privileges # {}
       /\ Owns(m, g.object)
       /\ g.object.kind = "schema" => g.privileges = {"USAGE"} /\ g.columns = {}
       /\ g.object.kind = "table" =>
            /\ g.privileges \subseteq {"SELECT", "INSERT", "UPDATE"}
            /\ "UPDATE" \in g.privileges <=> g.columns # {}
            /\ g.object.schema = MigrationSchemaName => IsLedgerGrant(m, g)
  /\ \A g, h \in m.grants : g.object = h.object => g = h

CreatesOnlyOwned(m) ==
  \A i \in DOMAIN m.migrations : \A o \in CreatedObjects(m.migrations[i]) : Owns(m, o)

ValidManifest(m) ==
  /\ OrderedMigrations(m)
  /\ ValidOwnership(m)
  /\ ValidGrants(m)
  /\ CreatesOnlyOwned(m)

DisjointOwnership(m, n) ==
  /\ m.trees \cap n.trees = {}
  /\ m.objects \cap n.objects = {}
  /\ \A o \in m.objects : o.schema \notin n.trees
  /\ \A o \in n.objects : o.schema \notin m.trees

\* Core owns its schema tree, the schema of the ledgers and its own ledger.
ValidCoreOwnership(m) ==
  /\ m.trees = {"stacks_core"}
  /\ m.objects = {MigrationSchema, LedgerTable(m)}

ValidDirectoryOwnership(m) ==
  /\ m.trees = {"stacks_directory"}
  /\ m.objects = {LedgerTable(m)}

\* The manifests a command selects: core, optionally followed by directory.
ValidManifestSet(ms) ==
  /\ DOMAIN ms \in {{"core"}, {"core", "directory"}}
  /\ \A s \in DOMAIN ms :
       /\ ValidManifest(ms[s])
       /\ ms[s].ledger = IF s = "core" THEN "core_version" ELSE "directory_version"
       /\ LedgerTable(ms[s]) \in ms[s].objects
       /\ \E g \in ms[s].grants : IsLedgerGrant(ms[s], g)
  /\ \A s, t \in DOMAIN ms : s # t => DisjointOwnership(ms[s], ms[t])
  /\ ValidCoreOwnership(ms["core"])
  /\ "directory" \in DOMAIN ms => ValidDirectoryOwnership(ms["directory"])

Rows(m) == {m.migrations[i] : i \in DOMAIN m.migrations}

FirstRows(m, n) == {m.migrations[i] : i \in 1..n}

\* Mutant: the checksums are not compared.
AgreesByVersion(m, rows) ==
  \E n \in 0..Len(m.migrations) :
    {r.version : r \in rows} = {r.version : r \in FirstRows(m, n)}

\* The rows of a ledger are the first migrations of the manifest: the same
\* versions, names and checksums in the same order and nothing else.
Agrees(m, rows) == \E n \in 0..Len(m.migrations) : rows = FirstRows(m, n)

\* The version last applied is below the last one of the manifest.
Behind(m, rows) == \A r \in rows : r.version < m.migrations[Len(m.migrations)].version

\* The privileges the application role has under a grant once its table and
\* the columns it names exist; until then the grant is passed over.
Granted(m, catalog) ==
  UNION {{g.object} \X g.privileges :
           g \in {h \in m.grants : h.object \in catalog /\ h.columns \subseteq catalog}}

Grantable(m, catalog) ==
  \A g \in m.grants : g.object \in catalog /\ g.columns \subseteq catalog

\* The part of the live catalog a scope's fingerprint is taken of, and the
\* fingerprint its manifest expects.
OwnedCatalog(m, catalog) == {o \in catalog : Owns(m, o)}
ExpectedCatalog(m) == m.objects \cup UNION {r.creates : r \in Rows(m)}
===============================================================================

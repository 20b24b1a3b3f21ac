----------------------------- MODULE MCMigration ------------------------------
(* Migration on a small instance: builds of different ages and branches.    *)
EXTENDS Migration, TLC

CONSTANTS p1, p2, v1, v2, v3

Core == "stacks_core"
Dir == "stacks_directory"

Index(s, i) == [kind |-> "index", schema |-> s, name |-> i]
Column(s, c) == [kind |-> "column", schema |-> s, name |-> c]

M(v, n, objects) == [version |-> v, name |-> n, creates |-> objects]

Documents == M(1, "documents", {SchemaObject(Core), TableObject(Core, "documents")})
Edited == M(1, "documents", {SchemaObject(Core), TableObject(Core, "documents"), Index(Core, "by_time")})
Identity == M(2, "identity", {TableObject(Core, "entities")})
Extraction == M(3, "extraction", {Column(Core, "entities.state")})
DataOnly == M(3, "backfill", {})
Directory == M(1, "directory", {SchemaObject(Dir), TableObject(Dir, "profiles")})
Trespass == M(1, "directory", {TableObject(Core, "profiles")})

Usage(s) == [object |-> SchemaObject(s), privileges |-> {"USAGE"}, columns |-> {}]
Table(s, t, privileges, columns) ==
  [object |-> TableObject(s, t), privileges |-> privileges, columns |-> columns]

CoreGrants == {Usage(Core), Usage(MigrationSchemaName), Table(Core, "documents", {"SELECT"}, {}),
               Table(MigrationSchemaName, "core_version", {"SELECT"}, {})}

CoreOf(migrations, grants) ==
  [ledger |-> "core_version", migrations |-> migrations, trees |-> {Core},
   objects |-> {MigrationSchema, TableObject(MigrationSchemaName, "core_version")},
   grants |-> grants]

DirectoryOf(migration, grants) ==
  [ledger |-> "directory_version", migrations |-> <<migration>>, trees |-> {Dir},
   objects |-> {TableObject(MigrationSchemaName, "directory_version")},
   grants |-> {Table(MigrationSchemaName, "directory_version", {"SELECT"}, {})} \cup grants]

PlainDirectory == DirectoryOf(Directory, {Usage(Dir), Table(Dir, "profiles", {"SELECT", "INSERT"}, {})})

\* A build with one migration, one with three, a branch whose second migration
\* changes data only, and a build whose first migration was edited after release
\* and whose directory scope claims a table of the core schema: each of its
\* manifests is valid, the two together are not.
MCEmbedded ==
  [b \in Build |->
    IF b = "base" THEN "core" :> CoreOf(<<Documents>>, CoreGrants) @@ "directory" :> PlainDirectory
    ELSE IF b = "release"
      THEN "core" :> CoreOf(<<Documents, Identity, Extraction>>,
                            CoreGrants \cup {Table(Core, "entities", {"SELECT", "UPDATE"},
                                                   {Column(Core, "entities.state")})})
           @@ "directory" :> PlainDirectory
    ELSE IF b = "branch"
      THEN "core" :> CoreOf(<<Documents, DataOnly>>, CoreGrants) @@ "directory" :> PlainDirectory
    ELSE "core" :> CoreOf(<<Edited>>, CoreGrants)
         @@ "directory" :> [DirectoryOf(Trespass, {}) EXCEPT
                              !.objects = @ \cup {TableObject(Core, "profiles")}]]

MCByHand == {TableObject(Core, "entities")}

MCSymmetry == Permutations(Proc) \cup Permutations(Volumes)
===============================================================================

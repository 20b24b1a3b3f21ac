----------------------------- MODULE MigrationLog -----------------------------
(* What the migrator promises: a database carries one log of migrations per  *)
(* scope, and a log grows by one migration at a time, together with all the  *)
(* objects and the privileges of that migration, only by a build whose every *)
(* selected scope agrees with the log so far.  Nothing is ever rewritten;    *)
(* the database may be thrown away whole.                                    *)
EXTENDS Manifest, FiniteSets

CONSTANTS
  Build,      \* the builds of the program that share the database
  Embedded,   \* [Build -> [Scope -> manifest]]
  ByHand      \* objects somebody may create in the database by other means

Scope == {"core", "directory"}

Selections == {{"core"}, {"core", "directory"}}

\* The builds and the scopes a command may select that pass validation: every
\* manifest when it is loaded, selected or not, and the selected ones together.
Valid ==
  {c \in Build \X Selections :
     /\ \A s \in Scope : ValidManifest(Embedded[c[1]][s])
     /\ ValidManifestSet([s \in c[2] |-> Embedded[c[1]][s]])}

Bookkeeping == {MigrationSchema} \cup {LedgerTable(Embedded[b][s]) : b \in Build, s \in Scope}

\* A change of a scope's privileges comes with a migration of its own: of two
\* builds, the one with more migrations declares at least the same grants.
ASSUME GrantsGrow ==
  \A b, c \in Build : \A s \in Scope :
    Rows(Embedded[b][s]) \subseteq Rows(Embedded[c][s]) =>
      Embedded[b][s].grants \subseteq Embedded[c][s].grants

\* The objects and columns a manifest grants on are its own.
ASSUME GrantsReachable ==
  \A b \in Build : \A s \in Scope :
    Grantable(Embedded[b][s], ExpectedCatalog(Embedded[b][s]))

ASSUME ManifestsAreLists ==
  \A b \in Build : \A s \in Scope :
    Embedded[b][s].migrations \in Seq(Rows(Embedded[b][s]))

VARIABLES
  ledger,     \* [Scope -> set of migrations recorded as applied]
  catalog,    \* the objects the database has
  granted     \* the privileges of the application role, <<object, privilege>>

logVars == <<ledger, catalog, granted>>

LogInit ==
  /\ ledger = [s \in Scope |-> {}]
  /\ catalog = {}
  /\ granted = {}

\* Mutant: the grants are made before the migration's SQL runs.
RecordGrantsFirst(b, s, m) ==
  /\ ledger' = [ledger EXCEPT ![s] = @ \cup {m}]
  /\ \A r \in ledger[s] : r.version # m.version
  /\ m.creates \cap catalog = {}
  /\ catalog' = catalog \cup m.creates
  /\ granted' = granted \cup Granted(Embedded[b][s], catalog)

\* Mutant: the row is written to one ledger, whatever the scope.
RecordInOneLedger(b, s, m) ==
  /\ ledger' = [ledger EXCEPT !["core"] = @ \cup {m}]
  /\ \A r \in ledger[s] : r.version # m.version
  /\ m.creates \cap catalog = {}
  /\ catalog' = catalog \cup m.creates
  /\ granted' = granted \cup Granted(Embedded[b][s], catalog')

\* The next migration m of scope s, its objects, the grants on the objects
\* there now are and its row; the last migration must leave no grant undone.
Record(b, s, m) ==
  /\ ledger' = [ledger EXCEPT ![s] = @ \cup {m}]
  /\ \A r \in ledger[s] : r.version # m.version
  /\ m.creates \cap catalog = {}
  /\ m = Embedded[b][s].migrations[Len(Embedded[b][s].migrations)] =>
       Grantable(Embedded[b][s], catalog \cup m.creates)
  /\ catalog' = catalog \cup m.creates
  /\ granted' = granted \cup Granted(Embedded[b][s], catalog')

Extend(b, S, s, n) ==
  /\ ledger[s] = FirstRows(Embedded[b][s], n - 1)
  /\ \A t \in S : /\ Agrees(Embedded[b][t], ledger[t])
                 /\ Embedded[b][t].objects \subseteq catalog
  /\ Record(b, s, Embedded[b][s].migrations[n])

Make(o) ==
  /\ UNCHANGED <<ledger, granted>>
  /\ catalog' = catalog \cup {o}

Wipe ==
  /\ ledger' = [s \in Scope |-> {}]
  /\ catalog' = {}
  /\ granted' = {}

LogNext ==
  \/ /\ ledger' # ledger
     /\ \E c \in Valid : \E s \in c[2] : \E n \in DOMAIN Embedded[c[1]][s].migrations :
          Extend(c[1], c[2], s, n)
  \/ \E o \in ByHand \cup Bookkeeping : Make(o)
  \/ Wipe

LogSpec == LogInit /\ [][LogNext]_logVars

\* A scope whose ledger holds all migrations of a build gives the application
\* role everything that build declares, whichever builds wrote the rows and
\* however often they were interrupted: the grants are made inside the
\* migrations' transactions and nothing makes them up afterwards.
CompleteIsGranted ==
  \A b \in Build : \A s \in Scope :
    <<b, {"core", s}>> \in Valid /\ ledger[s] = Rows(Embedded[b][s]) =>
      \A g \in Embedded[b][s].grants : {g.object} \X g.privileges \subseteq granted
===============================================================================

----------------------------- MODULE MigrationProofs ----------------------------
(* Proofs about Migration and the log it keeps, for any processes, builds    *)
(* and manifests: the commands implement MigrationLog (MigratorKeepsOneLog),  *)
(* a complete scope has its grants (CompleteScopesAreGranted), and what a     *)
(* command answers is true (CommandsAnswerTruly).                            *)
EXTENDS Migration, FiniteSetTheorems, TLAPS

-----------------------------------------------------------------------------
(* Manifests.                                                              *)

LEMMA SelectionFacts ==
  ASSUME NEW S \in Selections
  PROVE  /\ S \subseteq Scope /\ "core" \in S
         /\ \A t \in Scope : t \in S => S = {"core", t} \/ S = Scope
  BY DEF Selections, Scope

LEMMA ListFacts ==
  ASSUME NEW b \in Build, NEW s \in Scope
  PROVE  /\ Embedded[b][s].migrations \in Seq(Rows(Embedded[b][s]))
         /\ Len(Embedded[b][s].migrations) \in Nat
         /\ DOMAIN Embedded[b][s].migrations = 1..Len(Embedded[b][s].migrations)
  BY ManifestsAreLists

\* What validation says of a selected scope, as far as the proofs need it.
LEMMA ValidFacts ==
  ASSUME NEW b, NEW S, <<b, S>> \in Valid, NEW t \in S
  PROVE  /\ b \in Build /\ S \in Selections /\ t \in Scope
         /\ OrderedMigrations(Embedded[b][t])
         /\ Embedded[b][t].ledger = IF t = "core" THEN "core_version" ELSE "directory_version"
         /\ Embedded[b][t].objects = IF t = "core" THEN {MigrationSchema, LedgerTable(Embedded[b][t])}
                                                   ELSE {LedgerTable(Embedded[b][t])}
<1>1. /\ b \in Build /\ S \in Selections
      /\ ValidManifestSet([s \in S |-> Embedded[b][s]])
  BY DEF Valid
<1>2. t \in Scope
  BY <1>1 DEF Selections, Scope
<1>3. DOMAIN [s \in S |-> Embedded[b][s]] = S /\ [s \in S |-> Embedded[b][s]][t] = Embedded[b][t]
  OBVIOUS
<1>4. /\ ValidManifest(Embedded[b][t])
      /\ Embedded[b][t].ledger = IF t = "core" THEN "core_version" ELSE "directory_version"
  BY <1>1, <1>3 DEF ValidManifestSet
<1>5. OrderedMigrations(Embedded[b][t])
  BY <1>4 DEF ValidManifest
<1>6. CASE t = "core"
  <2>1. [s \in S |-> Embedded[b][s]]["core"] = Embedded[b][t]
    BY <1>6
  <2>2. ValidCoreOwnership(Embedded[b][t])
    BY <1>1, <2>1 DEF ValidManifestSet
  <2>3. QED
    BY <1>1, <1>2, <1>4, <1>5, <1>6, <2>2 DEF ValidCoreOwnership
<1>7. CASE t # "core"
  <2>1. t = "directory"
    BY <1>2, <1>7 DEF Scope
  <2>2. [s \in S |-> Embedded[b][s]]["directory"] = Embedded[b][t]
    BY <2>1
  <2>3. ValidDirectoryOwnership(Embedded[b][t])
    BY <1>1, <1>3, <2>1, <2>2 DEF ValidManifestSet
  <2>4. QED
    BY <1>1, <1>2, <1>4, <1>5, <1>7, <2>3 DEF ValidDirectoryOwnership
<1>8. QED
  BY <1>6, <1>7

\* Builds name their ledgers alike, so they own the same objects.
ObjectsOf(t) ==
  IF t = "core" THEN {MigrationSchema, TableObject(MigrationSchemaName, "core_version")}
                ELSE {TableObject(MigrationSchemaName, "directory_version")}

LEMMA SameObjects ==
  ASSUME NEW b, NEW S, <<b, S>> \in Valid, NEW t \in S
  PROVE  Embedded[b][t].objects = ObjectsOf(t)
<1>1. /\ Embedded[b][t].ledger = IF t = "core" THEN "core_version" ELSE "directory_version"
      /\ Embedded[b][t].objects = IF t = "core" THEN {MigrationSchema, LedgerTable(Embedded[b][t])}
                                                ELSE {LedgerTable(Embedded[b][t])}
  BY ValidFacts
<1>2. LedgerTable(Embedded[b][t]) = TableObject(MigrationSchemaName, Embedded[b][t].ledger)
  BY DEF LedgerTable
<1>3. CASE t = "core"
  BY <1>1, <1>2, <1>3 DEF ObjectsOf
<1>4. CASE t # "core"
  BY <1>1, <1>2, <1>4 DEF ObjectsOf
<1>5. QED
  BY <1>3, <1>4

LEMMA SomethingFirst ==
  ASSUME NEW T, NEW q \in Seq(T), q # <<>>
  PROVE  1 \in DOMAIN q
<1>1. Len(q) \in Nat /\ DOMAIN q = 1..Len(q) /\ Len(q) # 0
  OBVIOUS
<1>2. QED
  BY <1>1

LEMMA ManifestsAreNotEmpty ==
  ASSUME NEW b, NEW S, <<b, S>> \in Valid, NEW s \in S
  PROVE  Rows(Embedded[b][s]) # {}
<1>0. b \in Build /\ s \in Scope /\ OrderedMigrations(Embedded[b][s])
  BY ValidFacts
<1>1. Embedded[b][s].migrations # <<>>
  BY <1>0 DEF OrderedMigrations
<1>2. 1 \in DOMAIN Embedded[b][s].migrations
  BY <1>0, <1>1, ListFacts, SomethingFirst
<1>3. QED
  BY <1>2 DEF Rows

LEMMA FirstRowsFacts ==
  ASSUME NEW b \in Build, NEW s \in Scope
  PROVE  LET m == Embedded[b][s] IN
         /\ FirstRows(m, 0) = {}
         /\ FirstRows(m, Len(m.migrations)) = Rows(m)
         /\ \A n \in 0..Len(m.migrations) : FirstRows(m, n) \subseteq Rows(m)
         /\ \A n \in 1..Len(m.migrations) :
              FirstRows(m, n) = FirstRows(m, n - 1) \cup {m.migrations[n]}
<1> DEFINE m == Embedded[b][s]
<1>1. DOMAIN m.migrations = 1..Len(m.migrations) /\ Len(m.migrations) \in Nat
  BY ListFacts
<1> HIDE DEF m
<1>2. FirstRows(m, 0) = {}
  BY DEF FirstRows
<1>3. FirstRows(m, Len(m.migrations)) = Rows(m)
  BY <1>1 DEF FirstRows, Rows
<1>4. ASSUME NEW n \in 0..Len(m.migrations) PROVE FirstRows(m, n) \subseteq Rows(m)
  BY <1>1 DEF FirstRows, Rows
<1>5. ASSUME NEW n \in 1..Len(m.migrations)
      PROVE  FirstRows(m, n) = FirstRows(m, n - 1) \cup {m.migrations[n]}
  <2>1. 1..n = (1..(n - 1)) \cup {n}
    BY <1>1
  <2>2. QED
    BY <2>1 DEF FirstRows
<1>6. QED
  BY <1>2, <1>3, <1>4, <1>5 DEF m

\* A migrator takes the number of rows for the number of migrations applied.
LEMMA RowsAreCounted ==
  ASSUME NEW m, m.migrations \in Seq(Rows(m)), OrderedMigrations(m),
         NEW n \in 0..Len(m.migrations)
  PROVE  Cardinality(FirstRows(m, n)) = n
<1> DEFINE f == [i \in 1..n |-> m.migrations[i]]
<1>1. Len(m.migrations) \in Nat /\ DOMAIN m.migrations = 1..Len(m.migrations)
  OBVIOUS
<1>2. n \in Nat /\ 1..n \subseteq DOMAIN m.migrations
  BY <1>1
<1>3. ASSUME NEW i \in 1..n, NEW j \in 1..n, i < j PROVE m.migrations[i] # m.migrations[j]
  BY <1>2, <1>3 DEF OrderedMigrations
<1>4. f \in Bijection(1..n, FirstRows(m, n))
  <2>1. f \in Surjection(1..n, FirstRows(m, n))
    BY DEF Surjection, FirstRows
  <2>2. ASSUME NEW i \in 1..n, NEW j \in 1..n, f[i] = f[j] PROVE i = j
    BY <1>2, <1>3, <2>2
  <2>3. f \in Injection(1..n, FirstRows(m, n))
    BY <2>1, <2>2 DEF Injection, IsInjective, Surjection
  <2>4. QED
    BY <2>1, <2>3 DEF Bijection
<1>5. ExistsBijection(1..n, FirstRows(m, n))
  BY <1>4 DEF ExistsBijection
<1>6. IsFiniteSet(1..n) /\ Cardinality(1..n) = n
  BY <1>2, FS_Interval
<1>7. QED
  BY <1>5, <1>6, FS_Bijection

\* A ledger that is not behind holds every migration.
LEMMA NotBehind ==
  ASSUME NEW b, NEW S, <<b, S>> \in Valid, NEW s \in S, NEW rows,
         Agrees(Embedded[b][s], rows), ~Behind(Embedded[b][s], rows)
  PROVE  rows = Rows(Embedded[b][s])
<1> DEFINE m == Embedded[b][s]
<1>1. b \in Build /\ s \in Scope /\ OrderedMigrations(m)
  BY ValidFacts
<1>2. PICK n \in 0..Len(m.migrations) : rows = FirstRows(m, n)
  BY DEF Agrees
<1>3. PICK r \in rows : ~(r.version < m.migrations[Len(m.migrations)].version)
  BY DEF Behind
<1>4. PICK i \in 1..n : r = m.migrations[i]
  BY <1>2, <1>3 DEF FirstRows
<1>5. Len(m.migrations) \in Nat /\ DOMAIN m.migrations = 1..Len(m.migrations)
  BY <1>1, ListFacts
<1>6. ~(i < Len(m.migrations))
  BY <1>1, <1>3, <1>4, <1>5 DEF OrderedMigrations
<1>7. n = Len(m.migrations)
  BY <1>4, <1>5, <1>6
<1>8. QED
  BY <1>1, <1>2, <1>7, FirstRowsFacts

-----------------------------------------------------------------------------
(* The log.                                                                *)

LedgersOfRows ==
  /\ ledger \in [Scope -> SUBSET UNION {Rows(Embedded[b][s]) : b \in Build, s \in Scope}]
  /\ \A s \in Scope : ledger[s] \subseteq UNION {Rows(Embedded[b][s]) : b \in Build}

RowsAreCreated == \A s \in Scope : \A r \in ledger[s] : r.creates \subseteq catalog

LogInv == LedgersOfRows /\ RowsAreCreated /\ CompleteIsGranted

\* A recorded migration is one of the build's, new in its ledger.
LEMMA RecordFacts ==
  ASSUME LedgersOfRows, RowsAreCreated,
         NEW b \in Build, NEW s \in Scope, NEW m \in Rows(Embedded[b][s]), Record(b, s, m)
  PROVE  /\ LedgersOfRows' /\ RowsAreCreated'
         /\ ledger' # ledger
         /\ ledger'[s] = ledger[s] \cup {m}
         /\ \A t \in Scope : t # s => ledger'[t] = ledger[t]
         /\ catalog \subseteq catalog' /\ granted \subseteq granted'
         /\ m.creates \subseteq catalog'
<1>1. /\ ledger' = [ledger EXCEPT ![s] = @ \cup {m}]
      /\ \A r \in ledger[s] : r.version # m.version
      /\ catalog' = catalog \cup m.creates
      /\ granted \subseteq granted'
  BY DEF Record
<1>2. /\ ledger'[s] = ledger[s] \cup {m}
      /\ \A t \in Scope : t # s => ledger'[t] = ledger[t]
      /\ DOMAIN ledger' = Scope
  BY <1>1 DEF LedgersOfRows
<1>3. m \notin ledger[s]
  BY <1>1
<1>4. ledger' # ledger
  BY <1>2, <1>3
<1>5. \A t \in Scope : ledger'[t] \subseteq UNION {Rows(Embedded[c][t]) : c \in Build}
  BY <1>2 DEF LedgersOfRows
<1>6. LedgersOfRows'
  <2>1. ledger' \in [Scope -> SUBSET UNION {Rows(Embedded[c][t]) : c \in Build, t \in Scope}]
    BY <1>1 DEF LedgersOfRows
  <2>2. QED
    BY <1>5, <2>1 DEF LedgersOfRows
<1>7. RowsAreCreated'
  BY <1>1, <1>2 DEF RowsAreCreated
<1>8. QED
  BY <1>1, <1>2, <1>4, <1>6, <1>7

\* The grants of a complete scope are among those the build that completed it
\* has made, of objects that are all there.
LEMMA ExtendGrants ==
  ASSUME LogInv,
         NEW b, NEW S, <<b, S>> \in Valid, NEW s \in S,
         NEW n \in DOMAIN Embedded[b][s].migrations, Extend(b, S, s, n)
  PROVE  LogInv'
<1> DEFINE own == Embedded[b][s]  m == own.migrations[n]
<1>1. b \in Build /\ s \in Scope
  BY ValidFacts
<1>2. m \in Rows(own) /\ Record(b, s, m)
  BY DEF Extend, Rows
<1>3. /\ LedgersOfRows' /\ RowsAreCreated'
      /\ ledger'[s] = ledger[s] \cup {m}
      /\ \A t \in Scope : t # s => ledger'[t] = ledger[t]
      /\ catalog \subseteq catalog' /\ granted \subseteq granted'
  BY <1>1, <1>2, RecordFacts DEF LogInv
<1>4. ledger'[s] \subseteq Rows(own)
  <2>1. n \in 1..Len(own.migrations) /\ n - 1 \in 0..Len(own.migrations)
    BY <1>1, ListFacts
  <2>2. ledger[s] = FirstRows(own, n - 1)
    BY DEF Extend
  <2>3. QED
    BY <1>1, <1>2, <1>3, <2>1, <2>2, FirstRowsFacts
<1>5. own.objects \subseteq catalog'
  BY <1>3 DEF Extend
<1>6. granted' = granted \cup Granted(own, catalog')
  BY <1>2 DEF Record
<1>7. ASSUME NEW c \in Build, NEW t \in Scope, <<c, {"core", t}>> \in Valid,
             ledger'[t] = Rows(Embedded[c][t]), NEW g \in Embedded[c][t].grants
      PROVE  {g.object} \X g.privileges \subseteq granted'
  <2>1. CASE t # s
    <3>1. ledger[t] = Rows(Embedded[c][t])
      BY <1>3, <1>7, <2>1
    <3>2. {g.object} \X g.privileges \subseteq granted
      BY <1>7, <3>1 DEF LogInv, CompleteIsGranted
    <3>3. QED
      BY <1>3, <3>2
  <2>2. CASE t = s
    <3>1. g \in own.grants
      BY <1>1, <1>4, <1>7, <2>2, GrantsGrow
    <3>2. Embedded[c][s].objects = own.objects
      <4>1. PICK R : <<c, R>> \in Valid /\ s \in R
        BY <1>7, <2>2
      <4>2. Embedded[c][s].objects = ObjectsOf(s)
        BY <4>1, SameObjects
      <4>3. own.objects = ObjectsOf(s)
        BY SameObjects
      <4>4. QED
        BY <4>2, <4>3
    <3>3. \A r \in Rows(Embedded[c][s]) : r.creates \subseteq catalog'
      BY <1>1, <1>3, <1>7, <2>2 DEF RowsAreCreated
    <3>4. ExpectedCatalog(Embedded[c][s]) \subseteq catalog'
      BY <1>5, <3>2, <3>3 DEF ExpectedCatalog
    <3>5. Grantable(Embedded[c][s], ExpectedCatalog(Embedded[c][s]))
      BY <1>7, <2>2, GrantsReachable
    <3>6. g.object \in catalog' /\ g.columns \subseteq catalog'
      BY <1>7, <2>2, <3>4, <3>5 DEF Grantable
    <3>7. {g.object} \X g.privileges \subseteq Granted(own, catalog')
      BY <3>1, <3>6 DEF Granted
    <3>8. QED
      BY <1>6, <3>7
  <2>3. QED
    BY <2>1, <2>2
<1>8. CompleteIsGranted'
  BY <1>7 DEF CompleteIsGranted
<1>9. QED
  BY <1>3, <1>8 DEF LogInv

LEMMA LogInvHolds == LogSpec => []LogInv
<1>1. LogInit => LogInv
  <2> SUFFICES ASSUME LogInit PROVE LogInv
    OBVIOUS
  <2>1. \A s \in Scope : ledger[s] = {}
    BY DEF LogInit
  <2>2. LedgersOfRows /\ RowsAreCreated
    BY <2>1 DEF LogInit, LedgersOfRows, RowsAreCreated
  <2>3. ASSUME NEW b \in Build, NEW s \in Scope, <<b, {"core", s}>> \in Valid
        PROVE  Rows(Embedded[b][s]) # {}
    BY <2>3, ManifestsAreNotEmpty
  <2>4. QED
    BY <2>1, <2>2, <2>3 DEF LogInv, CompleteIsGranted
<1>2. LogInv /\ [LogNext]_logVars => LogInv'
  <2> SUFFICES ASSUME LogInv, [LogNext]_logVars PROVE LogInv'
    OBVIOUS
  <2>1. ASSUME NEW c \in Valid, NEW s \in c[2], NEW n \in DOMAIN Embedded[c[1]][s].migrations,
               Extend(c[1], c[2], s, n)
        PROVE  LogInv'
    <3>1. c = <<c[1], c[2]>>
      BY DEF Valid
    <3>2. QED
      BY <2>1, <3>1, ExtendGrants
  <2>2. ASSUME NEW o, Make(o) PROVE LogInv'
    BY <2>2 DEF Make, LogInv, LedgersOfRows, RowsAreCreated, CompleteIsGranted
  <2>3. ASSUME Wipe PROVE LogInv'
    <3>1. LogInit'
      BY <2>3 DEF Wipe, LogInit
    <3>2. \A s \in Scope : ledger'[s] = {}
      BY <3>1 DEF LogInit
    <3>3. LedgersOfRows' /\ RowsAreCreated'
      BY <3>1, <3>2 DEF LogInit, LedgersOfRows, RowsAreCreated
    <3>4. ASSUME NEW b \in Build, NEW s \in Scope, <<b, {"core", s}>> \in Valid
          PROVE  Rows(Embedded[b][s]) # {}
      BY <3>4, ManifestsAreNotEmpty
    <3>5. QED
      BY <3>2, <3>3, <3>4 DEF LogInv, CompleteIsGranted
  <2>4. CASE UNCHANGED logVars
    BY <2>4 DEF logVars, LogInv, LedgersOfRows, RowsAreCreated, CompleteIsGranted
  <2>5. QED
    BY <2>1, <2>2, <2>3, <2>4 DEF LogNext
<1>3. QED
  BY <1>1, <1>2, PTL DEF LogSpec

\* A scope that holds all migrations of a build has that build's grants
\* (applyApplicationGrants), whichever builds brought it there.
THEOREM LogGrantsAll == LogSpec => []CompleteIsGranted
<1>1. LogInv => CompleteIsGranted
  BY DEF LogInv
<1>2. QED
  BY <1>1, LogInvHolds, PTL

-----------------------------------------------------------------------------
(* The commands.  What a process may rely on at its step.                   *)

Steps == SessionStep \cup ResetStep \cup {"connecting", "ended"}
HoldingStep == {"ensuring", "loading", "applying", "unlocking"}
ReadingStep == {"reading", "fingerprinting"}

\* What is left of the scopes in order.
Todo == {<<>>, <<"core">>, <<"directory">>, <<"core", "directory">>}
Pending(todo) == {todo[i] : i \in DOMAIN todo}

Told == {"refused", "mismatch", "migrated", "reset", "failed", "reported"}

ProcSet ==
  [step : Steps, command : Command \cup {Null}, build : Build \cup {Null},
   scopes : SUBSET Scope, todo : Todo, done : [Scope -> Nat], began : Volumes \cup {Null},
   answer : Told \cup {Null}, report : {Null} \cup (Scope \X State)]

\* A command that runs has a build and scopes; from its first statement on they
\* have passed validation.
Selected(q) ==
  /\ q.step # "ended" => q.build \in Build /\ q.scopes \in Selections
  /\ q.step \in SessionStep => <<q.build, q.scopes>> \in Valid
  /\ q.step # "ended" /\ q.command = "status" => q.scopes = Scope

\* A migrator in its critical section holds the lock.
Locked(p, q) == q.step \in HoldingStep => lock = p

Connected(q) == q.step \in SessionStep => container = "running"

\* The objects a ledger's table needs are there before the table is read.
Ensured(q) ==
  /\ q.step = "ensuring" =>
       /\ q.todo # <<>> /\ Pending(q.todo) \subseteq q.scopes
       /\ MigrationSchema \in catalog
       /\ \A t \in q.scopes \ Pending(q.todo) : LedgerTable(Embedded[q.build][t]) \in catalog
  /\ q.step \in {"loading", "applying"} =>
       /\ q.todo # <<>> /\ Pending(q.todo) \subseteq q.scopes
       /\ \A t \in q.scopes : Embedded[q.build][t].objects \subseteq catalog

\* A ledger that was compared stays as it was found, but for what the migrator
\* itself has applied.
Counted(q, t) ==
  /\ q.done[t] \in 0..Len(Embedded[q.build][t].migrations)
  /\ ledger[t] = FirstRows(Embedded[q.build][t], q.done[t])
Loaded(q) ==
  /\ q.step = "loading" => \A t \in q.scopes \ Pending(q.todo) : Counted(q, t)
  /\ q.step = "applying" => \A t \in q.scopes : Counted(q, t)

\* A scope is left when its last migration is applied.
Complete(q, t) ==
  /\ ledger[t] = Rows(Embedded[q.build][t])
  /\ Embedded[q.build][t].objects \subseteq catalog
Finished(q) ==
  /\ q.step = "applying" => \A t \in q.scopes \ Pending(q.todo) : Complete(q, t)
  /\ q.step # "ended" /\ q.answer \in {"migrated", "reset"} =>
       /\ q.step = "unlocking" /\ q.answer = "migrated"
       /\ \A t \in q.scopes : Complete(q, t)

\* A reset remembers the volume it has found, and what it connects to is another.
ReplacedStep == SessionStep \cup {"recreating", "connecting"}
FoundStep == ReplacedStep \cup {"stopping", "removing", "erasing"}
Replaced(q) ==
  q.command = "reset" =>
    /\ q.step \in FoundStep => q.began \in Volumes
    /\ q.step \in ReplacedStep => volume # q.began

\* A scope under fingerprinting held all migrations when its ledger was read.
Inspected(q) ==
  /\ q.step \in ReadingStep => q.todo # <<>> /\ Pending(q.todo) \subseteq q.scopes
  /\ q.step = "fingerprinting" =>
       Rows(Embedded[q.build][Head(q.todo)]) \subseteq ledger[Head(q.todo)]

Knows(p, q) ==
  /\ q \in ProcSet
  /\ Selected(q) /\ Locked(p, q) /\ Connected(q)
  /\ Ensured(q) /\ Loaded(q) /\ Finished(q) /\ Replaced(q) /\ Inspected(q)

ServerOK ==
  /\ lock \in Proc \cup {Null}
  /\ container \in {"running", "stopped", "none"}
  /\ volume \in Volumes \cup {Null}
  /\ volume = Null => catalog = {} /\ container = "none"
  /\ DOMAIN proc = Proc

MigrationInv ==
  /\ LedgersOfRows /\ RowsAreCreated
  /\ ServerOK
  /\ \A p \in Proc : Knows(p, proc[p])

-----------------------------------------------------------------------------
(* Lists of scopes.                                                        *)

LEMMA TodoFacts ==
  /\ Pending(<<>>) = {} /\ <<>> \in Todo
  /\ \A todo \in Todo : todo # <<>> =>
       /\ Head(todo) \in Scope /\ Tail(todo) \in Todo
       /\ Pending(todo) = {Head(todo)} \cup Pending(Tail(todo))
       /\ Head(todo) \notin Pending(Tail(todo))
<1>1. Pending(<<>>) = {} /\ <<>> \in Todo
  BY DEF Pending, Todo
<1>2. /\ Pending(<<"core">>) = {"core"} /\ Pending(<<"directory">>) = {"directory"}
      /\ Pending(<<"core", "directory">>) = {"core", "directory"}
  BY DEF Pending
<1>3. /\ Head(<<"core">>) = "core" /\ Tail(<<"core">>) = <<>>
      /\ Head(<<"directory">>) = "directory" /\ Tail(<<"directory">>) = <<>>
      /\ Head(<<"core", "directory">>) = "core" /\ Tail(<<"core", "directory">>) = <<"directory">>
  OBVIOUS
<1>4. ASSUME NEW todo \in Todo, todo # <<>>
      PROVE  /\ Head(todo) \in Scope /\ Tail(todo) \in Todo
             /\ Pending(todo) = {Head(todo)} \cup Pending(Tail(todo))
             /\ Head(todo) \notin Pending(Tail(todo))
  <2>1. CASE todo = <<"core">>
    BY <1>1, <1>2, <1>3, <2>1 DEF Scope, Todo
  <2>2. CASE todo = <<"directory">>
    BY <1>1, <1>2, <1>3, <2>2 DEF Scope, Todo
  <2>3. CASE todo = <<"core", "directory">>
    BY <1>1, <1>2, <1>3, <2>3 DEF Scope, Todo
  <2>4. QED
    BY <1>4, <2>1, <2>2, <2>3 DEF Todo
<1>5. QED
  BY <1>1, <1>4

LEMMA InOrderFacts ==
  ASSUME NEW S \in Selections
  PROVE  InOrder(S) \in Todo /\ InOrder(S) # <<>> /\ Pending(InOrder(S)) = S
<1>1. CASE S = {"core"}
  BY <1>1 DEF InOrder, Todo, Pending
<1>2. CASE S = {"core", "directory"}
  BY <1>2 DEF InOrder, Known, Todo, Pending
<1>3. QED
  BY <1>1, <1>2 DEF Selections

\* What ends keeps its report.
\* A process moves on; the rest of its record stays.
Moved(q, step, todo, done, answer, began) ==
  [q EXCEPT !.step = step, !.todo = todo, !.done = done, !.answer = answer, !.began = began]

LEMMA MovedIsTyped ==
  ASSUME NEW q \in ProcSet, NEW step \in Steps, NEW todo \in Todo,
         NEW done \in [Scope -> Nat], NEW answer \in Told \cup {Null},
         NEW began \in Volumes \cup {Null},
         NEW r, r = Moved(q, step, todo, done, answer, began)
  PROVE  /\ r \in ProcSet
         /\ r.step = step /\ r.todo = todo /\ r.done = done /\ r.answer = answer
         /\ r.began = began
         /\ r.command = q.command /\ r.build = q.build /\ r.scopes = q.scopes
         /\ r.report = q.report
  BY DEF ProcSet, Moved

LEMMA EndedIsTyped ==
  ASSUME NEW q \in ProcSet, NEW answer \in Told \cup {Null}
  PROVE  Ended(q, answer) \in ProcSet
<1>1. PICK report : report = q.report
  OBVIOUS
<1>2. report \in {Null} \cup (Scope \X State)
  BY <1>1 DEF ProcSet
<1>3. Idle \in ProcSet
  BY TodoFacts DEF Idle, ProcSet, Steps
<1>4. Ended(q, answer) = [Idle EXCEPT !.answer = answer, !.report = report]
  BY <1>1 DEF Ended
<1> QED
  BY <1>2, <1>3, <1>4 DEF ProcSet

LEMMA KnownFacts == Known \in Todo /\ Known # <<>> /\ Pending(Known) = Scope /\ Scope \in Selections
  BY DEF Known, Todo, Pending, Scope, Selections

-----------------------------------------------------------------------------
(* What another process does.                                              *)

\* The volume does not become the one a reset has found again.
VolumeKept(q) == q.began \in Volumes /\ volume # q.began => volume' # q.began

\* Nothing a process without a session relies on changes.
LEMMA QuietKept ==
  ASSUME NEW p, NEW q, Knows(p, q), q.step \notin SessionStep, VolumeKept(q)
  PROVE  Knows(p, q)'
<1>1. Replaced(q)'
  BY DEF Knows, Replaced, VolumeKept, FoundStep
<1>2. /\ q \in ProcSet
      /\ (Selected(q) /\ Locked(p, q) /\ Connected(q))'
      /\ (Ensured(q) /\ Loaded(q) /\ Finished(q) /\ Inspected(q))'
  BY DEF Knows, Selected, Locked, Connected, Ensured, Loaded, Finished, Inspected,
         SessionStep, HoldingStep, ReadingStep
<1> QED
  BY <1>1, <1>2 DEF Knows

\* Without the lock a session can only lose by a ledger that shrinks; with it,
\* by any change of a ledger.
LEMMA SessionKept ==
  ASSUME NEW p, NEW q, Knows(p, q), VolumeKept(q),
         container = "running" => container' = "running",
         catalog \subseteq catalog',
         \A t \in Scope : ledger[t] \subseteq ledger'[t],
         lock = p => lock' = p /\ \A t \in Scope : ledger'[t] = ledger[t]
  PROVE  Knows(p, q)'
<1>1. q \in ProcSet /\ Selected(q)' /\ Locked(p, q)' /\ Connected(q)' /\ Replaced(q)'
  BY DEF Knows, Selected, Locked, Connected, Replaced, VolumeKept, FoundStep
<1>2. q.scopes \subseteq Scope
  BY DEF Knows, ProcSet
<1>3. Ensured(q)'
  BY DEF Knows, Ensured
<1>4. q.step \in HoldingStep => \A t \in Scope : ledger'[t] = ledger[t]
  BY DEF Knows, Locked
<1>5. Loaded(q)'
  BY <1>2, <1>4 DEF Knows, Loaded, Counted, HoldingStep
<1>6. Finished(q)'
  BY <1>2, <1>4 DEF Knows, Finished, Complete, HoldingStep
<1>7. Inspected(q)'
  BY TodoFacts DEF Knows, Inspected, ProcSet, ReadingStep
<1>8. QED
  BY <1>1, <1>3, <1>5, <1>6, <1>7 DEF Knows

\* Knows of a process's record, and of the same record by another name.
LEMMA KnowsNow ==
  ASSUME NEW p, NEW q, proc[p] = q
  PROVE  Knows(p, proc[p]) <=> Knows(p, q)
  BY DEF Knows, Selected, Locked, Connected, Ensured, Loaded, Counted, Finished, Complete,
         Replaced, Inspected

LEMMA KnowsNext ==
  ASSUME NEW p, NEW q, proc'[p] = q, Knows(p, q)'
  PROVE  Knows(p, proc[p])'
  BY DEF Knows, Selected, Locked, Connected, Ensured, Loaded, Counted, Finished, Complete,
         Replaced, Inspected

ServerVars == <<ledger, catalog, granted, lock, container, volume>>

\* A step of p that takes nothing from the others.
LEMMA OthersKept ==
  ASSUME MigrationInv, NEW p \in Proc, NEW r, Becomes(p, r), Knows(p, r)',
         \A o \in Proc : VolumeKept(proc[o]),
         container = "running" => container' = "running",
         catalog \subseteq catalog',
         \A t \in Scope : ledger[t] \subseteq ledger'[t],
         lock \in Proc \ {p} => lock' = lock /\ \A t \in Scope : ledger'[t] = ledger[t]
  PROVE  \A o \in Proc : Knows(o, proc[o])'
<1> SUFFICES ASSUME NEW o \in Proc PROVE Knows(o, proc[o])'
  OBVIOUS
<1>1. DOMAIN proc = Proc /\ proc' = [proc EXCEPT ![p] = r]
  BY DEF MigrationInv, ServerOK, Becomes
<1>2. CASE o = p
  <2>1. proc'[p] = r
    BY <1>1
  <2>2. QED
    BY <1>2, <2>1, KnowsNext
<1>3. CASE o # p
  <2>1. PICK q : q = proc[o]
    OBVIOUS
  <2>2. proc'[o] = q
    BY <1>1, <1>3, <2>1
  <2>3. Knows(o, q)
    BY <2>1, KnowsNow DEF MigrationInv
  <2>4. /\ lock = o => lock' = o /\ \A t \in Scope : ledger'[t] = ledger[t]
        /\ VolumeKept(q)
    BY <1>3, <2>1 DEF VolumeKept
  <2>5. Knows(o, q)'
    BY <2>3, <2>4, SessionKept
  <2>6. QED
    BY <2>2, <2>5, KnowsNext
<1>4. QED
  BY <1>2, <1>3

\* A step that changes nothing but p's own record.
LEMMA QuietStep ==
  ASSUME MigrationInv, NEW p \in Proc, NEW r, Becomes(p, r), Knows(p, r), UNCHANGED ServerVars
  PROVE  MigrationInv'
<1>1. /\ ledger' = ledger /\ catalog' = catalog /\ granted' = granted /\ lock' = lock
      /\ container' = container /\ volume' = volume
  BY DEF ServerVars
<1>2. Knows(p, r)'
  BY <1>1 DEF Knows, Selected, Locked, Connected, Ensured, Loaded, Counted, Finished, Complete,
              Replaced, Inspected
<1>3. \A o \in Proc : Knows(o, proc[o])'
  BY <1>1, <1>2, OthersKept DEF VolumeKept
<1>4. LedgersOfRows' /\ RowsAreCreated' /\ ServerOK'
  BY <1>1 DEF MigrationInv, LedgersOfRows, RowsAreCreated, ServerOK, Becomes
<1>5. QED
  BY <1>3, <1>4 DEF MigrationInv

\* The record of a process that has ended.
LEMMA EndedKnows ==
  ASSUME MigrationInv, NEW p \in Proc, NEW answer \in Told, NEW r, r = Ended(proc[p], answer)
  PROVE  Knows(p, r)
<1>1. proc[p].report \in {Null} \cup (Scope \X State)
  BY DEF MigrationInv, Knows, ProcSet
<1>2. r \in ProcSet
  BY <1>1 DEF Ended, Idle, ProcSet, Steps, Command, Todo
<1>3. r.step = "ended"
  BY DEF Ended, Idle
<1>4. QED
  BY <1>2, <1>3
     DEF Knows, Selected, Locked, Connected, Ensured, Loaded, Finished, Replaced, FoundStep,
         ReplacedStep, Inspected,
         SessionStep, HoldingStep, ReadingStep

-----------------------------------------------------------------------------
(* The steps that change nothing but the process's own record.             *)

LEMMA BeginStep ==
  ASSUME MigrationInv, NEW p \in Proc, NEW c \in Command, NEW b \in Build, NEW S \in Selections,
         Begin(p, c, b, IF c = "status" THEN Scope ELSE S)
  PROVE  MigrationInv'
<1>1. PICK R : R = IF c = "status" THEN Scope ELSE S
  OBVIOUS
<1>2. R \in Selections /\ R \subseteq Scope /\ (c = "status" => R = Scope)
  BY <1>1, KnownFacts, SelectionFacts
<1>3. PICK r : r = [Idle EXCEPT !.step = IF c = "reset" THEN "validating" ELSE "connecting",
                                !.command = c, !.build = b, !.scopes = R]
  OBVIOUS
<1>4. Becomes(p, r) /\ UNCHANGED ServerVars
  BY <1>1, <1>3 DEF Begin, ServerVars, pgVars
<1>5. r \in ProcSet
  BY <1>2, <1>3 DEF Idle, ProcSet, Steps, SessionStep, ResetStep, Todo
<1>6. /\ r.step = IF c = "reset" THEN "validating" ELSE "connecting"
      /\ r.command = c /\ r.build = b /\ r.scopes = R /\ r.answer = Null
  BY <1>3 DEF Idle
<1>7. Knows(p, r)
  BY <1>2, <1>5, <1>6, NullAssumption
     DEF Knows, Selected, Locked, Connected, Ensured, Loaded, Finished, Replaced, FoundStep,
         ReplacedStep, Inspected,
         SessionStep, HoldingStep, ReadingStep, Command
<1>8. QED
  BY <1>4, <1>7, QuietStep

LEMMA EndStep ==
  ASSUME MigrationInv, NEW p \in Proc, NEW answer \in Told, Answers(p, answer),
         UNCHANGED ServerVars
  PROVE  MigrationInv'
<1>1. PICK r : r = Ended(proc[p], answer)
  OBVIOUS
<1>2. Becomes(p, r)
  BY <1>1 DEF Answers
<1>3. Knows(p, r)
  BY <1>1, EndedKnows
<1>4. QED
  BY <1>2, <1>3, QuietStep

LEMMA ConnectStep ==
  ASSUME MigrationInv, NEW p \in Proc, Connect(p)
  PROVE  MigrationInv'
<1>1. PICK q : q = proc[p]
  OBVIOUS
<1>2. Knows(p, q) /\ q.step = "connecting" /\ <<q.build, q.scopes>> \in Valid
  BY <1>1, KnowsNow DEF MigrationInv, Connect, At
<1>3. PICK r : r = [q EXCEPT !.step = IF q.command = "status" THEN "reading" ELSE "locking",
                             !.todo = IF q.command = "status" THEN Known ELSE <<>>]
  OBVIOUS
<1>4. Becomes(p, r) /\ UNCHANGED ServerVars /\ container = "running"
  BY <1>1, <1>3 DEF Connect, Goes, ServerVars, pgVars, dockerVars
<1>5. q \in ProcSet
  BY <1>2 DEF Knows
<1>6. /\ r.step = IF q.command = "status" THEN "reading" ELSE "locking"
      /\ r.todo = IF q.command = "status" THEN Known ELSE <<>>
      /\ r.command = q.command /\ r.build = q.build /\ r.scopes = q.scopes
      /\ r.began = q.began
      /\ r.answer = q.answer
  BY <1>3, <1>5 DEF ProcSet
<1>7. r \in ProcSet
  <2>1. PICK step : step = IF q.command = "status" THEN "reading" ELSE "locking"
    OBVIOUS
  <2>2. PICK todo : todo = IF q.command = "status" THEN Known ELSE <<>>
    OBVIOUS
  <2>3. step \in Steps
    BY <2>1 DEF Steps, SessionStep
  <2>4. todo \in Todo
    BY <2>2, KnownFacts, TodoFacts
  <2>5. r = [q EXCEPT !.step = step, !.todo = todo]
    BY <1>3, <2>1, <2>2
  <2> QED
    BY <1>5, <2>3, <2>4, <2>5 DEF ProcSet
<1>8. Knows(p, r)
  BY <1>2, <1>4, <1>6, <1>7, KnownFacts
     DEF Knows, Selected, Locked, Connected, Ensured, Loaded, Finished, Replaced, FoundStep,
         ReplacedStep, Inspected,
         SessionStep, HoldingStep, ReadingStep
<1>9. QED
  BY <1>4, <1>8, QuietStep

LEMMA LoadAppliedStep ==
  ASSUME MigrationInv, NEW p \in Proc, LoadApplied(p)
  PROVE  MigrationInv'
<1>1. PICK q : q = proc[p]
  OBVIOUS
<1>2. PICK s : s = Head(q.todo)
  OBVIOUS
<1>3. PICK rest : rest = Tail(q.todo)
  OBVIOUS
<1>4. Knows(p, q) /\ q.step = "loading" /\ Agrees(Embedded[q.build][s], ledger[s])
  BY <1>1, <1>2, KnowsNow DEF MigrationInv, LoadApplied, At, Own
<1>5. PICK S : S = InOrder(q.scopes)
  OBVIOUS
<1>6. PICK n : n = Cardinality(ledger[s])
  OBVIOUS
<1>7. PICK r : r = [q EXCEPT !.done[s] = n, !.step = IF rest = <<>> THEN "applying" ELSE "loading",
                             !.todo = IF rest = <<>> THEN S ELSE rest]
  OBVIOUS
<1>8. Becomes(p, r) /\ UNCHANGED ServerVars
  BY <1>1, <1>2, <1>3, <1>5, <1>6, <1>7
     DEF LoadApplied, ScopesOf, ServerVars, pgVars, dockerVars
<1>9. /\ q \in ProcSet /\ q.build \in Build /\ q.scopes \in Selections
      /\ <<q.build, q.scopes>> \in Valid /\ q.todo \in Todo /\ q.todo # <<>>
  BY <1>4 DEF Knows, Selected, Ensured, ProcSet, SessionStep
<1>10. /\ s \in Scope /\ rest \in Todo /\ s \in Pending(q.todo)
       /\ Pending(q.todo) = {s} \cup Pending(rest)
  BY <1>2, <1>3, <1>9, TodoFacts
<1>11. s \in q.scopes /\ Pending(q.todo) \subseteq q.scopes
  BY <1>4, <1>10 DEF Knows, Ensured
<1>12. n \in 0..Len(Embedded[q.build][s].migrations) /\ ledger[s] = FirstRows(Embedded[q.build][s], n)
  <2>1. PICK k \in 0..Len(Embedded[q.build][s].migrations) : ledger[s] = FirstRows(Embedded[q.build][s], k)
    BY <1>4 DEF Agrees
  <2>2. OrderedMigrations(Embedded[q.build][s])
    BY <1>9, <1>11, ValidFacts
  <2>3. Embedded[q.build][s].migrations \in Seq(Rows(Embedded[q.build][s]))
    BY <1>9, <1>10, ListFacts
  <2>4. Cardinality(FirstRows(Embedded[q.build][s], k)) = k
    BY <2>2, <2>3, RowsAreCounted
  <2>5. QED
    BY <1>6, <2>1, <2>4
<1>13. n \in Nat
  BY <1>9, <1>10, <1>12, ListFacts
<1>14. S \in Todo /\ S # <<>> /\ Pending(S) = q.scopes
  BY <1>5, <1>9, InOrderFacts
<1>15. /\ r.step = IF rest = <<>> THEN "applying" ELSE "loading"
       /\ r.todo = IF rest = <<>> THEN S ELSE rest
       /\ r.done = [q.done EXCEPT ![s] = n]
       /\ r.command = q.command /\ r.build = q.build /\ r.scopes = q.scopes
       /\ r.answer = q.answer /\ r.began = q.began
       /\ r.report = q.report
       /\ r \in ProcSet
  <2>1. PICK step \in Steps : step = IF rest = <<>> THEN "applying" ELSE "loading"
    BY DEF Steps, SessionStep
  <2>2. PICK todo \in {S, rest} : todo = IF rest = <<>> THEN S ELSE rest
    OBVIOUS
  <2>3. PICK done : done = [q.done EXCEPT ![s] = n]
    OBVIOUS
  <2>4. r = Moved(q, step, todo, done, q.answer, q.began)
    BY <1>7, <1>9, <2>1, <2>2, <2>3 DEF ProcSet, Moved
  <2>5. /\ done \in [Scope -> Nat] /\ todo \in Todo
        /\ q.answer \in Told \cup {Null} /\ q.began \in Volumes \cup {Null}
    <3>1. done \in [Scope -> Nat]
      BY <1>9, <1>10, <1>13, <2>3 DEF ProcSet
    <3>2. todo \in Todo
      BY <1>10, <1>14, <2>2
    <3>3. q.answer \in Told \cup {Null} /\ q.began \in Volumes \cup {Null}
      BY <1>9 DEF ProcSet
    <3> QED
      BY <3>1, <3>2, <3>3
  <2>6. /\ r \in ProcSet /\ r.step = step /\ r.todo = todo /\ r.done = done
        /\ r.command = q.command /\ r.build = q.build /\ r.scopes = q.scopes
        /\ r.answer = q.answer /\ r.began = q.began /\ r.report = q.report
    BY <1>9, <2>4, <2>5, MovedIsTyped
  <2> QED
    BY <2>1, <2>2, <2>3, <2>6
<1>16. r.done[s] = n /\ \A t \in Scope : t # s => r.done[t] = q.done[t]
  BY <1>9, <1>10, <1>15 DEF ProcSet
<1>17. \A t \in q.scopes : t \notin Pending(rest) => Counted(r, t)
  <2> SUFFICES ASSUME NEW t \in q.scopes, t \notin Pending(rest) PROVE Counted(r, t)
    OBVIOUS
  <2>1. CASE t = s
    BY <1>12, <1>15, <1>16, <2>1 DEF Counted
  <2>2. CASE t # s
    <3>1. Counted(q, t) /\ t \in Scope
      BY <1>4, <1>9, <1>10, <2>2, SelectionFacts DEF Knows, Loaded
    <3>2. QED
      BY <1>15, <1>16, <2>2, <3>1 DEF Counted
  <2>3. QED
    BY <2>1, <2>2
<1>18. Loaded(r)
  BY <1>14, <1>15, <1>17, TodoFacts DEF Loaded
<1>19. Ensured(r)
  BY <1>4, <1>10, <1>11, <1>14, <1>15 DEF Knows, Ensured
<1>20. Finished(r)
  BY <1>4, <1>14, <1>15 DEF Knows, Finished
<1>21. Knows(p, r)
  BY <1>4, <1>15, <1>18, <1>19, <1>20
     DEF Knows, Selected, Locked, Connected, Replaced, FoundStep, ReplacedStep,
         Inspected, SessionStep, HoldingStep, ReadingStep
<1>22. QED
  BY <1>8, <1>21, QuietStep

LEMMA MismatchStep ==
  ASSUME MigrationInv, NEW p \in Proc, Mismatch(p)
  PROVE  MigrationInv'
<1>1. PICK q : q = proc[p]
  OBVIOUS
<1>2. Knows(p, q) /\ q.step = "loading" /\ q \in ProcSet
  BY <1>1, KnowsNow DEF MigrationInv, Mismatch, At, Knows
<1>3. PICK r : r = [q EXCEPT !.step = "unlocking", !.todo = <<>>, !.answer = "mismatch"]
  OBVIOUS
<1>4. Becomes(p, r) /\ UNCHANGED ServerVars
  BY <1>1, <1>3 DEF Mismatch, ServerVars, pgVars, dockerVars
<1>5. /\ r.step = "unlocking" /\ r.answer = "mismatch"
      /\ r.command = q.command /\ r.build = q.build /\ r.scopes = q.scopes
      /\ r.began = q.began
      /\ r \in ProcSet
  BY <1>2, <1>3, TodoFacts DEF ProcSet, Steps, SessionStep, Told
<1>6. Knows(p, r)
  BY <1>2, <1>5
     DEF Knows, Selected, Locked, Connected, Ensured, Loaded, Finished, Replaced, FoundStep,
         ReplacedStep, Inspected,
         SessionStep, HoldingStep, ReadingStep
<1>7. QED
  BY <1>4, <1>6, QuietStep

LEMMA ScopeAppliedStep ==
  ASSUME MigrationInv, NEW p \in Proc, ScopeApplied(p)
  PROVE  MigrationInv'
<1>1. PICK q : q = proc[p]
  OBVIOUS
<1>2. PICK s : s = Head(q.todo)
  OBVIOUS
<1>3. PICK rest : rest = Tail(q.todo)
  OBVIOUS
<1>4. /\ Knows(p, q) /\ q.step = "applying"
      /\ q.done[s] = Len(Embedded[q.build][s].migrations)
  BY <1>1, <1>2, KnowsNow DEF MigrationInv, ScopeApplied, At, Own
<1>5. PICK r : r = IF rest = <<>> THEN [q EXCEPT !.step = "unlocking", !.todo = <<>>, !.answer = "migrated"]
                   ELSE [q EXCEPT !.step = "applying", !.todo = rest]
  OBVIOUS
<1>6. Becomes(p, r) /\ UNCHANGED ServerVars
  BY <1>1, <1>2, <1>3, <1>5 DEF ScopeApplied, Goes, ServerVars, pgVars, dockerVars
<1>7. /\ q \in ProcSet /\ q.build \in Build /\ q.scopes \in Selections
      /\ <<q.build, q.scopes>> \in Valid /\ q.todo \in Todo /\ q.todo # <<>>
      /\ Pending(q.todo) \subseteq q.scopes
  BY <1>4 DEF Knows, Selected, Ensured, ProcSet, SessionStep
<1>8. /\ s \in Scope /\ rest \in Todo /\ s \in q.scopes
      /\ Pending(q.todo) = {s} \cup Pending(rest)
  BY <1>2, <1>3, <1>7, TodoFacts
<1>9. /\ r \in ProcSet
      /\ r.step = IF rest = <<>> THEN "unlocking" ELSE "applying"
      /\ r.todo = rest /\ r.done = q.done
      /\ r.answer = IF rest = <<>> THEN "migrated" ELSE q.answer
      /\ r.command = q.command /\ r.build = q.build /\ r.scopes = q.scopes
      /\ r.began = q.began
  <2>1. PICK step \in Steps : step = IF rest = <<>> THEN "unlocking" ELSE "applying"
    BY DEF Steps, SessionStep
  <2>2. PICK answer \in Told \cup {Null} : answer = IF rest = <<>> THEN "migrated" ELSE q.answer
    BY <1>7 DEF ProcSet, Told
  <2>3. /\ q.done \in [Scope -> Nat] /\ q.began \in Volumes \cup {Null}
        /\ r = Moved(q, step, rest, q.done, answer, q.began)
    BY <1>5, <1>7, <2>1, <2>2 DEF ProcSet, Moved
  <2> QED
    BY <1>7, <1>8, <2>1, <2>2, <2>3, MovedIsTyped
<1>10. Complete(q, s)
  <2>1. Counted(q, s) /\ Embedded[q.build][s].objects \subseteq catalog
    BY <1>4, <1>8 DEF Knows, Loaded, Ensured
  <2>2. QED
    BY <1>4, <1>7, <1>8, <2>1, FirstRowsFacts DEF Counted, Complete
<1>11. \A t \in q.scopes : t \notin Pending(rest) => Complete(r, t)
  BY <1>4, <1>8, <1>9, <1>10 DEF Knows, Finished, Complete
<1>12. Finished(r)
  BY <1>4, <1>9, <1>11, TodoFacts DEF Knows, Finished
<1>13. Loaded(r)
  BY <1>4, <1>9 DEF Knows, Loaded, Counted
<1>14. Ensured(r)
  BY <1>4, <1>7, <1>8, <1>9 DEF Knows, Ensured
<1>15. Knows(p, r)
  BY <1>4, <1>9, <1>12, <1>13, <1>14
     DEF Knows, Selected, Locked, Connected, Replaced, FoundStep, ReplacedStep,
         Inspected, SessionStep, HoldingStep, ReadingStep
<1>16. QED
  BY <1>6, <1>15, QuietStep

LEMMA ReportsStep ==
  ASSUME MigrationInv, NEW p \in Proc, proc[p].step \in ReadingStep,
         NEW s, s = Head(proc[p].todo), NEW state \in State, Reports(p, s, state),
         UNCHANGED ServerVars
  PROVE  MigrationInv'
<1>1. PICK q : q = proc[p]
  OBVIOUS
<1>2. PICK rest : rest = Tail(q.todo)
  OBVIOUS
<1>3. Knows(p, q) /\ q.step \in ReadingStep
  BY <1>1, KnowsNow DEF MigrationInv
<1>4. q \in ProcSet /\ q.todo \in Todo /\ q.todo # <<>> /\ Pending(q.todo) \subseteq q.scopes
  BY <1>3 DEF Knows, Inspected, ProcSet
<1>5. s \in Scope /\ rest \in Todo /\ Pending(rest) \subseteq q.scopes
  BY <1>1, <1>2, <1>4, TodoFacts
<1>6. PICK u : u = [q EXCEPT !.report = <<s, state>>]
  OBVIOUS
<1>7. PICK r : r = IF rest = <<>> THEN Ended(u, "reported")
                   ELSE [u EXCEPT !.step = "reading", !.todo = rest]
  OBVIOUS
<1>8. Becomes(p, r)
  BY <1>1, <1>2, <1>6, <1>7 DEF Reports
<1>9. <<s, state>> \in Scope \X State
  BY <1>5
<1>10. u \in ProcSet
  BY <1>4, <1>6, <1>9 DEF ProcSet
<1>11. ASSUME rest = <<>> PROVE Knows(p, r)
  <2>1. r \in ProcSet
    BY <1>7, <1>10, <1>11, EndedIsTyped DEF Told
  <2>2. r.step = "ended"
    BY <1>7, <1>11 DEF Ended, Idle
  <2>3. QED
    BY <2>1, <2>2
       DEF Knows, Selected, Locked, Connected, Ensured, Loaded, Finished, Replaced, FoundStep,
         ReplacedStep, Inspected,
           SessionStep, HoldingStep, ReadingStep
<1>12. ASSUME rest # <<>> PROVE Knows(p, r)
  <2>1. r \in ProcSet
    BY <1>5, <1>7, <1>10, <1>12 DEF ProcSet, Steps, SessionStep
  <2>2. /\ r.step = "reading" /\ r.todo = rest /\ r.answer = q.answer
        /\ r.command = q.command /\ r.build = q.build /\ r.scopes = q.scopes
        /\ r.began = q.began
    BY <1>4, <1>6, <1>7, <1>12 DEF ProcSet
  <2>3. QED
    BY <1>3, <1>5, <1>12, <2>1, <2>2
       DEF Knows, Selected, Locked, Connected, Ensured, Loaded, Finished, Replaced, FoundStep,
         ReplacedStep, Inspected,
           SessionStep, HoldingStep, ReadingStep
<1>13. Knows(p, r)
  BY <1>11, <1>12
<1>14. QED
  BY <1>8, <1>13, QuietStep

LEMMA InspectLedgerStep ==
  ASSUME MigrationInv, NEW p \in Proc, InspectLedger(p)
  PROVE  MigrationInv'
<1>1. PICK q : q = proc[p]
  OBVIOUS
<1>2. PICK s : s = Head(q.todo)
  OBVIOUS
<1>3. Knows(p, q) /\ q.step = "reading" /\ UNCHANGED ServerVars
  BY <1>1, KnowsNow DEF MigrationInv, InspectLedger, At, ServerVars, pgVars, dockerVars
<1>4. \/ \E state \in State : Reports(p, s, state)
      \/ /\ Agrees(Embedded[q.build][s], ledger[s]) /\ ~Behind(Embedded[q.build][s], ledger[s])
         /\ Goes(p, "fingerprinting", q.todo)
  BY <1>1, <1>2 DEF InspectLedger, Own, State
<1>5. CASE \E state \in State : Reports(p, s, state)
  BY <1>1, <1>2, <1>3, <1>5, ReportsStep DEF ReadingStep
<1>6. CASE /\ Agrees(Embedded[q.build][s], ledger[s]) /\ ~Behind(Embedded[q.build][s], ledger[s])
           /\ Goes(p, "fingerprinting", q.todo)
  <2>1. /\ q \in ProcSet /\ <<q.build, q.scopes>> \in Valid
        /\ q.todo \in Todo /\ q.todo # <<>> /\ Pending(q.todo) \subseteq q.scopes
    BY <1>3 DEF Knows, Selected, Inspected, ProcSet, SessionStep, ReadingStep
  <2>2. s \in q.scopes
    BY <1>2, <2>1, TodoFacts
  <2>3. ledger[s] = Rows(Embedded[q.build][s])
    BY <1>6, <2>1, <2>2, NotBehind
  <2>4. PICK r : r = [q EXCEPT !.step = "fingerprinting", !.todo = q.todo]
    OBVIOUS
  <2>5. Becomes(p, r)
    BY <1>1, <1>6, <2>4 DEF Goes
  <2>6. r \in ProcSet /\ r = [q EXCEPT !.step = "fingerprinting"]
    BY <2>1, <2>4 DEF ProcSet, Steps, SessionStep
  <2>7. /\ r.step = "fingerprinting" /\ r.todo = q.todo /\ r.answer = q.answer
        /\ r.command = q.command /\ r.build = q.build /\ r.scopes = q.scopes
        /\ r.began = q.began
    BY <2>1, <2>6 DEF ProcSet
  <2>8. Knows(p, r)
    BY <1>2, <1>3, <2>3, <2>6, <2>7
       DEF Knows, Selected, Locked, Connected, Ensured, Loaded, Finished, Replaced, FoundStep,
         ReplacedStep, Inspected,
           SessionStep, HoldingStep, ReadingStep
  <2>9. QED
    BY <1>3, <2>5, <2>8, QuietStep
<1>7. QED
  BY <1>4, <1>5, <1>6

LEMMA InspectCatalogStep ==
  ASSUME MigrationInv, NEW p \in Proc, InspectCatalog(p)
  PROVE  MigrationInv'
<1>1. PICK s : s = Head(proc[p].todo)
  OBVIOUS
<1>2. \E state \in State : Reports(p, s, state)
  BY <1>1 DEF InspectCatalog, State
<1>3. proc[p].step \in ReadingStep /\ UNCHANGED ServerVars
  BY DEF InspectCatalog, At, ReadingStep, ServerVars, pgVars, dockerVars
<1>4. QED
  BY <1>1, <1>2, <1>3, ReportsStep

LEMMA InspectTargetStep ==
  ASSUME MigrationInv, NEW p \in Proc, InspectTarget(p)
  PROVE  MigrationInv'
<1>1. PICK q : q = proc[p]
  OBVIOUS
<1>2. Knows(p, q) /\ q.step = "validating" /\ q \in ProcSet /\ volume \in Volumes
  BY <1>1, KnowsNow DEF MigrationInv, ServerOK, InspectTarget, OneLocalTarget, At, Knows
<1>3. PICK r : r = [q EXCEPT !.step = "stopping", !.began = volume]
  OBVIOUS
<1>4. Becomes(p, r) /\ UNCHANGED ServerVars
  BY <1>1, <1>3 DEF InspectTarget, ServerVars, pgVars, dockerVars
<1>5. /\ r.step = "stopping" /\ r.answer = q.answer /\ r.began \in Volumes
      /\ r.command = q.command /\ r.build = q.build /\ r.scopes = q.scopes
      /\ r \in ProcSet
  BY <1>2, <1>3 DEF ProcSet, Steps, ResetStep
<1>6. Knows(p, r)
  BY <1>2, <1>5
     DEF Knows, Selected, Locked, Connected, Ensured, Loaded, Finished, Replaced, FoundStep,
         ReplacedStep, Inspected,
         SessionStep, HoldingStep, ReadingStep
<1>7. QED
  BY <1>4, <1>6, QuietStep

-----------------------------------------------------------------------------
(* The steps on the database.                                              *)

\* Objects are added; nobody's knowledge suffers.
LEMMA CatalogGrows ==
  ASSUME MigrationInv, container = "running", catalog \subseteq catalog',
         UNCHANGED <<ledger, container, volume>>, lock' \in Proc \cup {Null}, DOMAIN proc' = Proc
  PROVE  (LedgersOfRows /\ RowsAreCreated /\ ServerOK)'
  BY DEF MigrationInv, LedgersOfRows, RowsAreCreated, ServerOK

LEMMA LockStep ==
  ASSUME MigrationInv, NEW p \in Proc, Lock(p)
  PROVE  MigrationInv'
<1>1. PICK q : q = proc[p]
  OBVIOUS
<1>2. PICK S : S = InOrder(q.scopes)
  OBVIOUS
<1>3. Knows(p, q) /\ q.step = "locking" /\ lock = Null
  BY <1>1, KnowsNow DEF MigrationInv, Lock, At
<1>4. PICK r : r = [q EXCEPT !.step = "ensuring", !.todo = S]
  OBVIOUS
<1>5. /\ Becomes(p, r) /\ lock' = p /\ catalog' = catalog \cup {MigrationSchema}
      /\ ledger' = ledger /\ container' = container /\ volume' = volume
  BY <1>1, <1>2, <1>4 DEF Lock, Goes, ScopesOf, dockerVars
<1>6. /\ q \in ProcSet /\ q.scopes \in Selections /\ container = "running"
  BY <1>3 DEF Knows, Selected, Connected, SessionStep
<1>7. S \in Todo /\ S # <<>> /\ Pending(S) = q.scopes
  BY <1>2, <1>6, InOrderFacts
<1>8. /\ r.step = "ensuring" /\ r.todo = S /\ r.answer = q.answer
      /\ r.command = q.command /\ r.build = q.build /\ r.scopes = q.scopes
      /\ r.began = q.began
      /\ r \in ProcSet
  BY <1>4, <1>6, <1>7 DEF ProcSet, Steps, SessionStep
<1>9. Knows(p, r)'
  BY <1>3, <1>5, <1>7, <1>8
     DEF Knows, Selected, Locked, Connected, Ensured, Loaded, Finished, Replaced, FoundStep,
         ReplacedStep, Inspected,
         SessionStep, HoldingStep, ReadingStep
<1>10. \A o \in Proc : Knows(o, proc[o])'
  BY <1>3, <1>5, <1>9, NullAssumption, OthersKept DEF VolumeKept
<1>11. (LedgersOfRows /\ RowsAreCreated /\ ServerOK)'
  BY <1>5, <1>6, CatalogGrows DEF MigrationInv, ServerOK, Becomes
<1>12. QED
  BY <1>10, <1>11 DEF MigrationInv

LEMMA EnsureLedgerStep ==
  ASSUME MigrationInv, NEW p \in Proc, EnsureLedger(p)
  PROVE  MigrationInv'
<1>1. PICK q : q = proc[p]
  OBVIOUS
<1>2. PICK s : s = Head(q.todo)
  OBVIOUS
<1>3. PICK rest : rest = Tail(q.todo)
  OBVIOUS
<1>4. PICK S : S = InOrder(q.scopes)
  OBVIOUS
<1>5. Knows(p, q) /\ q.step = "ensuring"
  BY <1>1, KnowsNow DEF MigrationInv, EnsureLedger, At
<1>6. PICK r : r = [q EXCEPT !.step = IF rest = <<>> THEN "loading" ELSE "ensuring",
                             !.todo = IF rest = <<>> THEN S ELSE rest]
  OBVIOUS
<1>7. /\ Becomes(p, r) /\ catalog' = catalog \cup {LedgerTable(Embedded[q.build][s])}
      /\ ledger' = ledger /\ container' = container /\ volume' = volume /\ lock' = lock
  BY <1>1, <1>2, <1>3, <1>4, <1>6 DEF EnsureLedger, Goes, ScopesOf, Own, dockerVars
<1>8. /\ q \in ProcSet /\ q.scopes \in Selections /\ container = "running" /\ lock = p
      /\ <<q.build, q.scopes>> \in Valid /\ q.todo \in Todo /\ q.todo # <<>>
      /\ Pending(q.todo) \subseteq q.scopes /\ MigrationSchema \in catalog
  BY <1>5 DEF Knows, Selected, Connected, Locked, Ensured, SessionStep, HoldingStep, ProcSet
<1>9. S \in Todo /\ S # <<>> /\ Pending(S) = q.scopes
  BY <1>4, <1>8, InOrderFacts
<1>10. s \in q.scopes /\ rest \in Todo /\ Pending(q.todo) = {s} \cup Pending(rest)
  BY <1>2, <1>3, <1>8, TodoFacts
<1>11. /\ r.step = IF rest = <<>> THEN "loading" ELSE "ensuring"
       /\ r.todo = IF rest = <<>> THEN S ELSE rest
       /\ r.command = q.command /\ r.build = q.build /\ r.scopes = q.scopes
       /\ r.began = q.began
       /\ r.answer = q.answer /\ r \in ProcSet
  <2>1. PICK step \in Steps : step = IF rest = <<>> THEN "loading" ELSE "ensuring"
    BY DEF Steps, SessionStep
  <2>2. PICK todo \in Todo : todo = IF rest = <<>> THEN S ELSE rest
    BY <1>9, <1>10
  <2>3. /\ q.done \in [Scope -> Nat] /\ q.answer \in Told \cup {Null}
        /\ q.began \in Volumes \cup {Null}
        /\ r = Moved(q, step, todo, q.done, q.answer, q.began)
    BY <1>6, <1>8, <2>1, <2>2 DEF ProcSet, Moved
  <2>4. /\ r \in ProcSet /\ r.step = step /\ r.todo = todo /\ r.done = q.done
        /\ r.command = q.command /\ r.build = q.build /\ r.scopes = q.scopes
        /\ r.answer = q.answer /\ r.began = q.began /\ r.report = q.report
    BY <1>8, <2>1, <2>2, <2>3, MovedIsTyped
  <2> QED
    BY <2>1, <2>2, <2>4
<1>12. \A t \in q.scopes : t \notin Pending(rest) => LedgerTable(Embedded[q.build][t]) \in catalog'
  BY <1>5, <1>7, <1>10 DEF Knows, Ensured
<1>13. Ensured(r)'
  <2>1. CASE rest # <<>>
    BY <1>7, <1>8, <1>10, <1>11, <1>12, <2>1 DEF Ensured
  <2>2. CASE rest = <<>>
    <3>1. \A t \in q.scopes : LedgerTable(Embedded[q.build][t]) \in catalog'
      BY <1>12, <2>2, TodoFacts
    <3>2. PICK b : b = q.build
      OBVIOUS
    <3>3. PICK R : R = q.scopes /\ <<b, R>> \in Valid
      BY <1>8, <3>2
    <3>4. \A t \in R : Embedded[b][t].objects \subseteq {MigrationSchema, LedgerTable(Embedded[b][t])}
      <4> SUFFICES ASSUME NEW t \in R
                   PROVE  Embedded[b][t].objects \subseteq {MigrationSchema, LedgerTable(Embedded[b][t])}
        OBVIOUS
      <4>1. Embedded[b][t].objects = IF t = "core" THEN {MigrationSchema, LedgerTable(Embedded[b][t])}
                                                  ELSE {LedgerTable(Embedded[b][t])}
        BY <3>3, ValidFacts
      <4>2. QED
        BY <4>1
    <3>5. \A t \in q.scopes : Embedded[q.build][t].objects \subseteq catalog'
      BY <1>7, <1>8, <3>1, <3>2, <3>3, <3>4
    <3>6. QED
      BY <1>9, <1>11, <2>2, <3>5 DEF Ensured
  <2>3. QED
    BY <2>1, <2>2
<1>14. Loaded(r)'
  BY <1>9, <1>11 DEF Loaded
<1>15. Knows(p, r)'
  BY <1>5, <1>7, <1>11, <1>13, <1>14
     DEF Knows, Selected, Locked, Connected, Finished, Replaced, FoundStep,
         ReplacedStep, Inspected,
         SessionStep, HoldingStep, ReadingStep
<1>16. \A o \in Proc : Knows(o, proc[o])'
  BY <1>7, <1>8, <1>15, OthersKept DEF VolumeKept
<1>17. (LedgersOfRows /\ RowsAreCreated /\ ServerOK)'
  BY <1>7, <1>8, CatalogGrows DEF MigrationInv, ServerOK, Becomes
<1>18. QED
  BY <1>16, <1>17 DEF MigrationInv

\* What holds when a migrator applies its next migration: its comparison of
\* every scope is still true.
LEMMA ApplyExtends ==
  ASSUME MigrationInv, NEW p \in Proc, NEW q, q = proc[p], ApplyMigration(p),
         NEW s, s = Head(q.todo), NEW n, n = q.done[s] + 1
  PROVE  /\ Knows(p, q) /\ q.step = "applying" /\ q \in ProcSet
         /\ q.build \in Build /\ q.scopes \in Selections /\ <<q.build, q.scopes>> \in Valid
         /\ q.todo \in Todo /\ q.todo # <<>> /\ Pending(q.todo) \subseteq q.scopes
         /\ s \in q.scopes /\ s \in Scope /\ s \in Pending(q.todo)
         /\ n \in 1..Len(Embedded[q.build][s].migrations)
         /\ Embedded[q.build][s].migrations[n] \in Rows(Embedded[q.build][s])
         /\ Extend(q.build, q.scopes, s, n)
         /\ container = "running" /\ lock = p
<1>1. Knows(p, q) /\ q.step = "applying"
  BY KnowsNow DEF MigrationInv, ApplyMigration, At
<1>2. /\ q \in ProcSet /\ q.build \in Build /\ q.scopes \in Selections
      /\ <<q.build, q.scopes>> \in Valid /\ q.todo \in Todo /\ q.todo # <<>>
      /\ Pending(q.todo) \subseteq q.scopes /\ container = "running" /\ lock = p
  BY <1>1 DEF Knows, Selected, Connected, Locked, Ensured, SessionStep, HoldingStep, ProcSet
<1>3. s \in Scope /\ s \in Pending(q.todo) /\ s \in q.scopes
  BY <1>2, TodoFacts
<1>4. /\ n <= Len(Embedded[q.build][s].migrations)
      /\ Record(q.build, s, Embedded[q.build][s].migrations[n])
  BY DEF ApplyMigration, Own
<1>5. \A t \in q.scopes : Counted(q, t) /\ Embedded[q.build][t].objects \subseteq catalog
  BY <1>1 DEF Knows, Loaded, Ensured
<1>6. /\ q.done[s] \in 0..Len(Embedded[q.build][s].migrations)
      /\ ledger[s] = FirstRows(Embedded[q.build][s], q.done[s])
  BY <1>3, <1>5 DEF Counted
<1>7. Len(Embedded[q.build][s].migrations) \in Nat
      /\ DOMAIN Embedded[q.build][s].migrations = 1..Len(Embedded[q.build][s].migrations)
  BY <1>2, <1>3, ListFacts
<1>8. n \in 1..Len(Embedded[q.build][s].migrations) /\ n - 1 = q.done[s]
  <2>1. PICK k : k = q.done[s]
    OBVIOUS
  <2>2. PICK l : l = Len(Embedded[q.build][s].migrations)
    OBVIOUS
  <2>3. l \in Nat /\ k \in 0..l /\ n = k + 1 /\ n <= l
    BY <1>4, <1>6, <1>7, <2>1, <2>2
  <2>4. n \in 1..l /\ n - 1 = k
    BY <2>3
  <2>5. QED
    BY <2>1, <2>2, <2>4
<1>9. Embedded[q.build][s].migrations[n] \in Rows(Embedded[q.build][s])
  BY <1>7, <1>8 DEF Rows
<1>10. \A t \in q.scopes : Agrees(Embedded[q.build][t], ledger[t])
  BY <1>5 DEF Counted, Agrees
<1>11. Extend(q.build, q.scopes, s, n)
  BY <1>4, <1>5, <1>6, <1>8, <1>10 DEF Extend
<1>12. QED
  BY <1>1, <1>2, <1>3, <1>8, <1>9, <1>11

LEMMA ApplyMigrationStep ==
  ASSUME MigrationInv, NEW p \in Proc, ApplyMigration(p)
  PROVE  MigrationInv'
<1>1. PICK q : q = proc[p]
  OBVIOUS
<1>2. PICK s : s = Head(q.todo)
  OBVIOUS
<1>3. PICK n : n = q.done[s] + 1
  OBVIOUS
<1>4. PICK m : m = Embedded[q.build][s].migrations[n]
  OBVIOUS
<1>5. /\ Knows(p, q) /\ q.step = "applying" /\ q \in ProcSet
      /\ q.build \in Build /\ q.scopes \in Selections
      /\ q.todo \in Todo /\ q.todo # <<>> /\ Pending(q.todo) \subseteq q.scopes
      /\ s \in q.scopes /\ s \in Scope /\ s \in Pending(q.todo)
      /\ n \in 1..Len(Embedded[q.build][s].migrations)
      /\ m \in Rows(Embedded[q.build][s])
      /\ Extend(q.build, q.scopes, s, n)
      /\ container = "running" /\ lock = p
  BY <1>1, <1>2, <1>3, <1>4, ApplyExtends
<1>6. Record(q.build, s, m)
  BY <1>4, <1>5 DEF Extend
<1>7. /\ LedgersOfRows' /\ RowsAreCreated'
      /\ ledger'[s] = ledger[s] \cup {m}
      /\ \A t \in Scope : t # s => ledger'[t] = ledger[t]
      /\ catalog \subseteq catalog'
  BY <1>5, <1>6, RecordFacts DEF MigrationInv
<1>8. PICK r : r = [q EXCEPT !.done[s] = n]
  OBVIOUS
<1>9. /\ Becomes(p, r) /\ lock' = lock /\ container' = container /\ volume' = volume
  BY <1>1, <1>2, <1>3, <1>8 DEF ApplyMigration, dockerVars
<1>10. n \in Nat
  BY <1>5, ListFacts
<1>11. /\ r \in ProcSet /\ r.step = "applying" /\ r.todo = q.todo /\ r.answer = q.answer
       /\ r.command = q.command /\ r.build = q.build /\ r.scopes = q.scopes
       /\ r.began = q.began
       /\ r.done = [q.done EXCEPT ![s] = n]
  BY <1>5, <1>8, <1>10 DEF ProcSet
<1>12. r.done[s] = n /\ \A t \in Scope : t # s => r.done[t] = q.done[t]
  BY <1>5, <1>11 DEF ProcSet
<1>13. \A t \in q.scopes : t \in Scope /\ Counted(q, t) /\ Embedded[q.build][t].objects \subseteq catalog
  BY <1>5, SelectionFacts DEF Knows, Loaded, Ensured
<1>14. ledger'[s] = FirstRows(Embedded[q.build][s], n)
  <2>1. ledger[s] = FirstRows(Embedded[q.build][s], n - 1)
    BY <1>5 DEF Extend
  <2>2. FirstRows(Embedded[q.build][s], n) = FirstRows(Embedded[q.build][s], n - 1) \cup {m}
    <3>1. PICK b \in Build : b = q.build
      BY <1>5
    <3>2. n \in 1..Len(Embedded[b][s].migrations)
      BY <1>5, <3>1
    <3>3. FirstRows(Embedded[b][s], n) = FirstRows(Embedded[b][s], n - 1) \cup {Embedded[b][s].migrations[n]}
      BY <1>5, <3>2, FirstRowsFacts
    <3>4. QED
      BY <1>4, <3>1, <3>3
  <2>3. QED
    BY <1>7, <2>1, <2>2
<1>15. Loaded(r)'
  <2> SUFFICES ASSUME NEW t \in q.scopes PROVE Counted(r, t)'
    BY <1>11 DEF Loaded
  <2>1. CASE t = s
    <3>1. n \in 0..Len(Embedded[q.build][s].migrations)
      BY <1>5
    <3>2. QED
      BY <1>11, <1>12, <1>14, <2>1, <3>1 DEF Counted
  <2>2. CASE t # s
    BY <1>7, <1>11, <1>12, <1>13, <2>2 DEF Counted
  <2>3. QED
    BY <2>1, <2>2
<1>16. Ensured(r)'
  BY <1>5, <1>7, <1>11, <1>13 DEF Ensured
<1>17. Finished(r)'
  <2>1. \A t \in q.scopes \ Pending(q.todo) : Complete(q, t)
    BY <1>5 DEF Knows, Finished
  <2>2. \A t \in q.scopes \ Pending(q.todo) : Complete(r, t)'
    BY <1>5, <1>7, <1>11, <1>13, <2>1 DEF Complete
  <2>3. q.answer \notin {"migrated", "reset"}
    BY <1>5 DEF Knows, Finished
  <2>4. QED
    BY <1>11, <2>2, <2>3 DEF Finished
<1>18. Knows(p, r)'
  BY <1>5, <1>9, <1>11, <1>15, <1>16, <1>17
     DEF Knows, Selected, Locked, Connected, Replaced, FoundStep,
         ReplacedStep, Inspected,
         SessionStep, HoldingStep, ReadingStep
<1>19. \A t \in Scope : ledger[t] \subseteq ledger'[t]
  BY <1>7
<1>20. \A o \in Proc : Knows(o, proc[o])'
  BY <1>5, <1>7, <1>9, <1>18, <1>19, OthersKept DEF VolumeKept
<1>21. ServerOK'
  BY <1>5, <1>9 DEF MigrationInv, ServerOK, Becomes
<1>22. QED
  BY <1>7, <1>20, <1>21 DEF MigrationInv

LEMMA UnlockStep ==
  ASSUME MigrationInv, NEW p \in Proc, Unlock(p)
  PROVE  MigrationInv'
<1>1. PICK q : q = proc[p]
  OBVIOUS
<1>2. Knows(p, q) /\ q.step = "unlocking"
  BY <1>1, KnowsNow DEF MigrationInv, Unlock, At
<1>3. PICK r : r = Ended(q, IF q.command = "reset" /\ q.answer = "migrated" THEN "reset" ELSE q.answer)
  OBVIOUS
<1>4. /\ Becomes(p, r) /\ lock' = Null /\ ledger' = ledger /\ catalog' = catalog
      /\ container' = container /\ volume' = volume
  BY <1>1, <1>3 DEF Unlock, Answers, dockerVars
<1>5. lock = p /\ container = "running" /\ q \in ProcSet
  BY <1>2 DEF Knows, Locked, Connected, SessionStep, HoldingStep
<1>6. r \in ProcSet
  <2>1. PICK answer : answer = IF q.command = "reset" /\ q.answer = "migrated"
                                 THEN "reset" ELSE q.answer
    OBVIOUS
  <2>2. answer \in Told \cup {Null}
    BY <1>5, <2>1 DEF ProcSet, Told
  <2>3. r = Ended(q, answer)
    BY <1>3, <2>1
  <2> QED
    BY <1>5, <2>2, <2>3, EndedIsTyped
<1>7. r.step = "ended"
  BY <1>3 DEF Ended, Idle
<1>8. Knows(p, r)'
  BY <1>6, <1>7
     DEF Knows, Selected, Locked, Connected, Ensured, Loaded, Finished, Replaced, FoundStep,
         ReplacedStep, Inspected,
         SessionStep, HoldingStep, ReadingStep
<1>9. \A o \in Proc : Knows(o, proc[o])'
  BY <1>4, <1>5, <1>8, OthersKept DEF VolumeKept
<1>10. (LedgersOfRows /\ RowsAreCreated /\ ServerOK)'
  BY <1>4, <1>5, CatalogGrows DEF MigrationInv, ServerOK, Becomes
<1>11. QED
  BY <1>9, <1>10 DEF MigrationInv

\* Nobody who relies on the lock loses it.
LEMMA SessionEndsStep ==
  ASSUME MigrationInv, NEW p \in Proc, SessionEnds(p)
  PROVE  MigrationInv'
<1>1. /\ lock = p /\ lock' = Null /\ ledger' = ledger /\ catalog' = catalog
      /\ container' = container /\ volume' = volume /\ proc' = proc
  BY DEF SessionEnds, dockerVars
<1>2. ASSUME NEW o \in Proc PROVE Knows(o, proc[o])'
  <2>1. PICK q : q = proc[o]
    OBVIOUS
  <2>2. Knows(o, q) /\ proc'[o] = q
    BY <1>1, <2>1, KnowsNow DEF MigrationInv
  <2>3. lock = o => q.step = "ended"
    BY <1>1, <2>1 DEF SessionEnds, At
  <2>4. CASE lock = o
    BY <1>1, <2>2, <2>3, <2>4, QuietKept, KnowsNext DEF SessionStep, VolumeKept
  <2>5. CASE lock # o
    BY <1>1, <2>2, <2>5, SessionKept, KnowsNext DEF VolumeKept
  <2>6. QED
    BY <2>4, <2>5
<1>3. (LedgersOfRows /\ RowsAreCreated /\ ServerOK)'
  BY <1>1 DEF MigrationInv, LedgersOfRows, RowsAreCreated, ServerOK
<1>4. QED
  BY <1>2, <1>3 DEF MigrationInv


-----------------------------------------------------------------------------
(* The steps on the container and its volume.                              *)

LEMMA ResetGoes ==
  ASSUME NEW p, NEW q, Knows(p, q), q.step \in ResetStep,
         q.step # "validating",
         NEW step \in {"removing", "erasing", "recreating", "connecting"},
         q.command = "reset" /\ step \in {"recreating", "connecting"} => volume' # q.began,
         NEW r, r = [q EXCEPT !.step = step, !.todo = <<>>] \/ r = [q EXCEPT !.step = step]
  PROVE  Knows(p, r)'
<1>1. q \in ProcSet
  BY DEF Knows
<1>2. r \in ProcSet
  <2>1. PICK steps : steps = Steps
    OBVIOUS
  <2>2. step \in steps
    BY <2>1 DEF Steps, ResetStep
  <2>3. PICK todo \in Todo : r = [q EXCEPT !.step = step, !.todo = todo]
    <3>1. CASE r = [q EXCEPT !.step = step, !.todo = <<>>]
      BY <3>1, TodoFacts
    <3>2. CASE r = [q EXCEPT !.step = step]
      BY <1>1, <3>2 DEF ProcSet
    <3>3. QED
      BY <3>1, <3>2
  <2>4. QED
    BY <1>1, <2>1, <2>2, <2>3 DEF ProcSet
<1>3. /\ r.step = step /\ r.answer = q.answer
      /\ r.command = q.command /\ r.build = q.build /\ r.scopes = q.scopes
      /\ r.began = q.began
  BY <1>1 DEF ProcSet
<1>4. step \notin SessionStep \cup {"ended"} /\ q.step # "ended"
  BY DEF SessionStep, ResetStep
<1>5. Selected(r)' /\ Locked(p, r)' /\ Connected(r)' /\ Replaced(r)'
  <2>1. Selected(r)' /\ Locked(p, r)' /\ Connected(r)'
    BY <1>3, <1>4 DEF Knows, Selected, Locked, Connected, SessionStep, HoldingStep
  <2>2. q.step \in FoundStep
    BY DEF FoundStep, ReplacedStep, ResetStep
  <2>3. Replaced(r)'
    BY <1>3, <1>4, <2>2 DEF Knows, Replaced, ReplacedStep
  <2> QED
    BY <2>1, <2>3
<1>6. Ensured(r)' /\ Loaded(r)' /\ Inspected(r)'
  BY <1>3, <1>4 DEF Ensured, Loaded, Inspected, SessionStep, ReadingStep
<1>7. Finished(r)'
  BY <1>3, <1>4 DEF Knows, Finished, SessionStep, ResetStep
<1>8. QED
  BY <1>2, <1>5, <1>6, <1>7 DEF Knows

\* Stopping the container ends every session, so nobody relies on one.
LEMMA StopStep ==
  ASSUME MigrationInv, NEW p \in Proc, Stop(p)
  PROVE  MigrationInv'
<1>1. /\ proc[p].step = "stopping" /\ ledger' = ledger /\ catalog' = catalog /\ volume' = volume
      /\ lock' = Null
      /\ container' = IF container = "running" THEN "stopped" ELSE container
      /\ proc' = [q \in Proc |->
           IF q = p THEN [proc[p] EXCEPT !.step = "removing"]
           ELSE IF proc[q].step \in SessionStep THEN Ended(proc[q], "failed") ELSE proc[q]]
  BY DEF Stop, At
<1>2. ASSUME NEW o \in Proc PROVE Knows(o, proc[o])'
  <2>1. PICK q : q = proc[o]
    OBVIOUS
  <2>2. Knows(o, q)
    BY <2>1, KnowsNow DEF MigrationInv
  <2>3. CASE o = p
    <3>1. PICK r : r = [q EXCEPT !.step = "removing"]
      OBVIOUS
    <3>2. proc'[o] = r
      BY <1>1, <2>1, <2>3, <3>1
    <3>3. q.step \in ResetStep
      BY <1>1, <2>1, <2>3 DEF ResetStep
    <3>4. Knows(o, r)'
      BY <1>1, <2>1, <2>2, <2>3, <3>1, <3>3, ResetGoes
    <3>5. QED
      BY <3>2, <3>4, KnowsNext
  <2>4. CASE o # p /\ q.step \in SessionStep
    <3>1. PICK r : r = Ended(proc[o], "failed")
      OBVIOUS
    <3>2. proc'[o] = r
      BY <1>1, <2>1, <2>4, <3>1
    <3>3. Knows(o, r)
      BY <3>1, EndedKnows DEF Told
    <3>4. r.step = "ended"
      BY <3>1 DEF Ended, Idle
    <3>5. Knows(o, r)'
      BY <1>1, <3>3, <3>4, QuietKept DEF SessionStep, VolumeKept
    <3>6. QED
      BY <3>2, <3>5, KnowsNext
  <2>5. CASE o # p /\ q.step \notin SessionStep
    <3>1. proc'[o] = q
      BY <1>1, <2>1, <2>5
    <3>2. Knows(o, q)'
      BY <1>1, <2>2, <2>5, QuietKept DEF VolumeKept
    <3>3. QED
      BY <3>1, <3>2, KnowsNext
  <2>6. QED
    BY <2>3, <2>4, <2>5
<1>3. (LedgersOfRows /\ RowsAreCreated /\ ServerOK)'
  <2>1. (LedgersOfRows /\ RowsAreCreated)'
    BY <1>1 DEF MigrationInv, LedgersOfRows, RowsAreCreated
  <2>2. DOMAIN proc' = Proc
    BY <1>1
  <2>3. QED
    BY <1>1, <2>1, <2>2 DEF MigrationInv, ServerOK
<1>4. QED
  BY <1>2, <1>3 DEF MigrationInv

\* A step without a running container finds no session.
LEMMA DetachedStep ==
  ASSUME MigrationInv, NEW p \in Proc, NEW r, Becomes(p, r), Knows(p, r)', container # "running",
         \A o \in Proc : VolumeKept(proc[o])
  PROVE  \A o \in Proc : Knows(o, proc[o])'
<1> SUFFICES ASSUME NEW o \in Proc PROVE Knows(o, proc[o])'
  OBVIOUS
<1>1. DOMAIN proc = Proc /\ proc' = [proc EXCEPT ![p] = r]
  BY DEF MigrationInv, ServerOK, Becomes
<1>2. CASE o = p
  <2>1. proc'[p] = r
    BY <1>1
  <2>2. QED
    BY <1>2, <2>1, KnowsNext
<1>3. CASE o # p
  <2>1. PICK q : q = proc[o]
    OBVIOUS
  <2>2. proc'[o] = q /\ Knows(o, q)
    BY <1>1, <1>3, <2>1, KnowsNow DEF MigrationInv
  <2>3. q.step \notin SessionStep
    BY <2>2 DEF Knows, Connected
  <2>4. Knows(o, q)'
    BY <2>1, <2>2, <2>3, QuietKept DEF VolumeKept
  <2>5. QED
    BY <2>2, <2>4, KnowsNext
<1>4. QED
  BY <1>2, <1>3

LEMMA RemoveStep ==
  ASSUME MigrationInv, NEW p \in Proc, Remove(p)
  PROVE  MigrationInv'
<1>1. PICK q : q = proc[p]
  OBVIOUS
<1>2. PICK r : r = [q EXCEPT !.step = "erasing", !.todo = <<>>]
  OBVIOUS
<1>3. /\ Knows(p, q) /\ q.step = "removing" /\ Becomes(p, r)
      /\ ledger' = ledger /\ catalog' = catalog /\ volume' = volume /\ lock' = lock
      /\ container' = IF container = "stopped" THEN "none" ELSE container
  BY <1>1, <1>2, KnowsNow DEF MigrationInv, Remove, At, Goes, pgVars
<1>4. Knows(p, r)'
  BY <1>2, <1>3, ResetGoes DEF ResetStep
<1>5. \A o \in Proc : Knows(o, proc[o])'
  <2>1. lock \in Proc \ {p} => lock' = lock /\ \A t \in Scope : ledger'[t] = ledger[t]
    BY <1>3
  <2>2. container = "running" => container' = "running"
    BY <1>3
  <2>3. QED
    BY <1>3, <1>4, <2>1, <2>2, OthersKept DEF VolumeKept
<1>6. (LedgersOfRows /\ RowsAreCreated /\ ServerOK)'
  BY <1>3 DEF MigrationInv, LedgersOfRows, RowsAreCreated, ServerOK, Becomes
<1>7. QED
  BY <1>5, <1>6 DEF MigrationInv

LEMMA EraseStep ==
  ASSUME MigrationInv, NEW p \in Proc, Erase(p)
  PROVE  MigrationInv'
<1>1. PICK q : q = proc[p]
  OBVIOUS
<1>2. PICK r : r = [q EXCEPT !.step = "recreating", !.todo = <<>>]
  OBVIOUS
<1>3. /\ Knows(p, q) /\ q.step = "erasing" /\ Becomes(p, r)
      /\ container = "none" /\ container' = container /\ volume' = Null /\ lock' = lock
      /\ ledger' = [s \in Scope |-> {}] /\ catalog' = {}
  BY <1>1, <1>2, KnowsNow DEF MigrationInv, Erase, At, Goes, Wipe
<1>4. Knows(p, r)'
  <2>1. q.command = "reset" => volume' # q.began
    BY <1>3, NullAssumption DEF Knows, Replaced, FoundStep
  <2> QED
    BY <1>2, <1>3, <2>1, ResetGoes DEF ResetStep
<1>5. \A o \in Proc : Knows(o, proc[o])'
  BY <1>3, <1>4, NullAssumption, DetachedStep DEF VolumeKept
<1>6. (LedgersOfRows /\ RowsAreCreated)'
  BY <1>3 DEF LedgersOfRows, RowsAreCreated
<1>7. ServerOK'
  BY <1>3 DEF MigrationInv, ServerOK, Becomes
<1>8. QED
  BY <1>5, <1>6, <1>7 DEF MigrationInv

\* A volume that is made for the service is none that a reset has found.
LEMMA UpKeepsVolumes ==
  ASSUME Up
  PROVE  /\ \A o \in Proc : VolumeKept(proc[o])
         /\ volume \in Volumes \cup {Null} => volume' \in Volumes
         /\ \A o \in Proc : volume # proc[o].began => volume' # proc[o].began
  BY DEF Up, VolumeKept

LEMMA RecreateStep ==
  ASSUME MigrationInv, NEW p \in Proc, Recreate(p)
  PROVE  MigrationInv'
<1>1. PICK q : q = proc[p]
  OBVIOUS
<1>2. PICK r : r = [q EXCEPT !.step = "connecting", !.todo = <<>>]
  OBVIOUS
<1>3. /\ Knows(p, q) /\ q.step = "recreating" /\ Becomes(p, r)
      /\ ledger' = ledger /\ catalog' = catalog /\ lock' = lock
      /\ container' = "running" /\ Up
  BY <1>1, <1>2, KnowsNow DEF MigrationInv, Recreate, At, Goes, Up, pgVars
<1>4. Knows(p, r)'
  <2>1. CASE q.command = "reset"
    <3>1. volume' # q.began
      BY <1>1, <1>3, <2>1, UpKeepsVolumes DEF Knows, Replaced, ReplacedStep
    <3>2. QED
      BY <1>2, <1>3, <3>1, ResetGoes DEF ResetStep
  <2>2. CASE q.command # "reset"
    <3>1. q \in ProcSet
      BY <1>3 DEF Knows
    <3>2. /\ r \in ProcSet /\ r.step = "connecting" /\ r.answer = q.answer
          /\ r.command = q.command /\ r.build = q.build /\ r.scopes = q.scopes
          /\ r.began = q.began
      BY <1>2, <3>1, TodoFacts DEF ProcSet, Steps
    <3>3. QED
      BY <1>3, <2>2, <3>2
         DEF Knows, Selected, Locked, Connected, Ensured, Loaded, Finished, Replaced, FoundStep,
         ReplacedStep, Inspected,
             SessionStep, HoldingStep, ReadingStep
  <2>3. QED
    BY <2>1, <2>2
<1>5. \A o \in Proc : Knows(o, proc[o])'
  <2>1. lock \in Proc \ {p} => lock' = lock /\ \A t \in Scope : ledger'[t] = ledger[t]
    BY <1>3
  <2>2. \A o \in Proc : VolumeKept(proc[o])
    BY <1>3, UpKeepsVolumes
  <2>3. QED
    BY <1>3, <1>4, <2>1, <2>2, OthersKept
<1>6. (LedgersOfRows /\ RowsAreCreated /\ ServerOK)'
  BY <1>3, UpKeepsVolumes, NullAssumption
     DEF MigrationInv, LedgersOfRows, RowsAreCreated, ServerOK, Becomes
<1>7. QED
  BY <1>5, <1>6 DEF MigrationInv

\* What is done by hand: the service started, the schema changed.
LEMMA ByHandStep ==
  ASSUME MigrationInv, ComposeUp \/ \E o \in ByHand : Alter(o)
  PROVE  MigrationInv'
<1>1. /\ proc' = proc /\ lock' = lock /\ ledger' = ledger /\ catalog \subseteq catalog'
      /\ container' = "running"
      /\ container = "running" \/ catalog' = catalog
      /\ volume' \in Volumes /\ \A o \in Proc : VolumeKept(proc[o])
  <2>1. CASE ComposeUp
    <3>1. Up /\ proc' = proc /\ UNCHANGED pgVars
      BY <2>1 DEF ComposeUp
    <3>2. volume' \in Volumes /\ \A o \in Proc : VolumeKept(proc[o])
      BY <3>1, UpKeepsVolumes DEF MigrationInv, ServerOK
    <3> QED
      BY <3>1, <3>2 DEF Up, pgVars
  <2>2. CASE \E o \in ByHand : Alter(o)
    <3>1. /\ container = "running" /\ proc' = proc /\ UNCHANGED <<lock, ledger>>
          /\ UNCHANGED <<container, volume>> /\ catalog \subseteq catalog'
      BY <2>2 DEF Alter, Make, dockerVars
    <3>2. volume \in Volumes
      BY <3>1 DEF MigrationInv, ServerOK
    <3> QED
      BY <3>1, <3>2 DEF VolumeKept
  <2>3. QED
    BY <2>1, <2>2
<1>2. ASSUME NEW o \in Proc PROVE Knows(o, proc[o])'
  <2>1. PICK q : q = proc[o]
    OBVIOUS
  <2>2. Knows(o, q) /\ proc'[o] = q
    BY <1>1, <2>1, KnowsNow DEF MigrationInv
  <2>3. /\ VolumeKept(q)
        /\ lock = o => lock' = o /\ \A t \in Scope : ledger'[t] = ledger[t]
        /\ \A t \in Scope : ledger[t] \subseteq ledger'[t]
    BY <1>1, <2>1 DEF VolumeKept
  <2>4. Knows(o, q)'
    <3>1. Connected(q)'
      BY <1>1 DEF Connected
    <3> QED
      BY <1>1, <2>2, <2>3, <3>1, SessionKept
  <2>5. QED
    BY <2>2, <2>4, KnowsNext
<1>3. (LedgersOfRows /\ RowsAreCreated /\ ServerOK)'
  BY <1>1, NullAssumption DEF MigrationInv, LedgersOfRows, RowsAreCreated, ServerOK
<1>4. QED
  BY <1>2, <1>3 DEF MigrationInv

-----------------------------------------------------------------------------
(* Theorems.                                                               *)

LEMMA MigrationInvStarts == Init => MigrationInv
<1> SUFFICES ASSUME Init PROVE MigrationInv
  OBVIOUS
<1>1. LedgersOfRows /\ RowsAreCreated
  BY DEF Init, LogInit, LedgersOfRows, RowsAreCreated
<1>2. ServerOK
  <2>1. volume # Null
    BY NullAssumption DEF Init
  <2> QED
    BY <2>1 DEF Init, ServerOK
<1>3. ASSUME NEW p \in Proc PROVE Knows(p, proc[p])
  <2>1. PICK q : q = proc[p]
    OBVIOUS
  <2>2. q = Idle
    BY <2>1 DEF Init
  <2>3. q \in ProcSet
    BY <2>2 DEF Idle, ProcSet, Steps, Todo
  <2>4. q.step = "ended"
    BY <2>2 DEF Idle
  <2>5. Knows(p, q)
    BY <2>3, <2>4
       DEF Knows, Selected, Locked, Connected, Ensured, Loaded, Finished, Replaced, FoundStep,
         ReplacedStep, Inspected,
           SessionStep, HoldingStep, ReadingStep
  <2>6. QED
    BY <2>1, <2>5, KnowsNow
<1>4. QED
  BY <1>1, <1>2, <1>3 DEF MigrationInv

LEMMA MigrationInvKept == MigrationInv /\ [Next]_vars => MigrationInv'
<1> SUFFICES ASSUME MigrationInv, [Next]_vars PROVE MigrationInv'
  OBVIOUS
<1>1. ASSUME NEW p \in Proc, NEW c \in Command, NEW b \in Build, NEW S \in Selections,
             Begin(p, c, b, IF c = "status" THEN Scope ELSE S)
      PROVE  MigrationInv'
  BY <1>1, BeginStep
<1>2. ASSUME NEW p \in Proc, Migrates(p) PROVE MigrationInv'
  <2>1. CASE Refuse(p)
    BY <2>1, EndStep DEF Refuse, Told, ServerVars, pgVars, dockerVars
  <2>2. QED
    BY <1>2, <2>1, ConnectStep, LockStep, EnsureLedgerStep, LoadAppliedStep, MismatchStep,
       ApplyMigrationStep, ScopeAppliedStep, UnlockStep DEF Migrates
<1>3. ASSUME NEW p \in Proc, Inspects(p) PROVE MigrationInv'
  BY <1>3, InspectLedgerStep, InspectCatalogStep DEF Inspects
<1>4. ASSUME NEW p \in Proc, Resets(p) PROVE MigrationInv'
  BY <1>4, InspectTargetStep, StopStep, RemoveStep, EraseStep, RecreateStep DEF Resets
<1>5. ASSUME NEW p \in Proc, Fail(p) PROVE MigrationInv'
  BY <1>5, EndStep DEF Fail, Told, ServerVars, pgVars, dockerVars
<1>6. ASSUME NEW p \in Proc, SessionEnds(p) PROVE MigrationInv'
  BY <1>6, SessionEndsStep
<1>7. CASE UNCHANGED vars
  <2>1. /\ proc' = proc /\ lock' = lock /\ ledger' = ledger /\ catalog' = catalog
        /\ container' = container /\ volume' = volume
    BY <1>7 DEF vars
  <2>2. LedgersOfRows' /\ RowsAreCreated'
    BY <2>1 DEF MigrationInv, LedgersOfRows, RowsAreCreated
  <2>3. ServerOK'
    BY <2>1 DEF MigrationInv, ServerOK
  <2>4. ASSUME NEW p \in Proc PROVE Knows(p, proc[p])'
    <3>1. PICK q : q = proc[p]
      OBVIOUS
    <3>2. Knows(p, q)
      BY <3>1, KnowsNow DEF MigrationInv
    <3>3. \A t : Counted(q, t)' <=> Counted(q, t)
      BY <2>1 DEF Counted
    <3>4. \A t : Complete(q, t)' <=> Complete(q, t)
      BY <2>1 DEF Complete
    <3>5. Selected(q)' /\ Locked(p, q)' /\ Connected(q)' /\ Replaced(q)'
      BY <2>1, <3>2 DEF Knows, Selected, Locked, Connected, Replaced
    <3>6. Ensured(q)' /\ Inspected(q)'
      BY <2>1, <3>2 DEF Knows, Ensured, Inspected
    <3>7. Loaded(q)'
      BY <3>2, <3>3 DEF Knows, Loaded
    <3>8. Finished(q)'
      BY <3>2, <3>4 DEF Knows, Finished
    <3>9. Knows(p, q)'
      BY <3>2, <3>5, <3>6, <3>7, <3>8 DEF Knows
    <3>10. QED
      BY <2>1, <3>1, <3>9, KnowsNext
  <2>5. QED
    BY <2>2, <2>3, <2>4 DEF MigrationInv
<1>8. QED
  BY <1>1, <1>2, <1>3, <1>4, <1>5, <1>6, <1>7, ByHandStep DEF Next

LEMMA MigrationInvHolds == Spec => []MigrationInv
  BY MigrationInvStarts, MigrationInvKept, PTL DEF Spec

\* The commands' state keeps its types: rows are in the ledger of their scope, no
\* session outlives its container, the catalog goes with the volume.
THEOREM MigrationTypeCorrect == Spec => []TypeOK
<1>1. MigrationInv => TypeOK
  BY DEF MigrationInv, LedgersOfRows, ServerOK, Knows, Connected, TypeOK
<1>2. QED
  BY <1>1, MigrationInvHolds, PTL

\* Each step on the database is one the log allows: Extend comes from what
\* Apply knows of every selected scope while it holds the lock.
LEMMA StepKeepsLog == MigrationInv /\ [Next]_vars => [LogNext]_logVars
<1> SUFFICES ASSUME MigrationInv, [Next]_vars PROVE [LogNext]_logVars
  OBVIOUS
<1>1. ASSUME UNCHANGED pgVars PROVE [LogNext]_logVars
  BY <1>1 DEF pgVars, logVars
<1>2. ASSUME NEW o \in ByHand \cup Bookkeeping, Make(o) PROVE [LogNext]_logVars
  BY <1>2 DEF LogNext
<1>3. ASSUME NEW p \in Proc, Lock(p) PROVE [LogNext]_logVars
  <2>1. MigrationSchema \in Bookkeeping
    BY DEF Bookkeeping
  <2>2. Make(MigrationSchema)
    BY <1>3 DEF Lock, Make
  <2>3. QED
    BY <1>2, <2>1, <2>2
<1>4. ASSUME NEW p \in Proc, EnsureLedger(p) PROVE [LogNext]_logVars
  <2>1. PICK q : q = proc[p]
    OBVIOUS
  <2>2. Knows(p, q) /\ q.step = "ensuring"
    BY <1>4, <2>1, KnowsNow DEF MigrationInv, EnsureLedger, At
  <2>3. q.build \in Build /\ q.todo \in Todo /\ q.todo # <<>>
    BY <2>2 DEF Knows, Selected, Ensured, ProcSet
  <2>4. PICK t : t = LedgerTable(Embedded[q.build][Head(q.todo)])
    OBVIOUS
  <2>5. t \in Bookkeeping
    BY <2>3, <2>4, TodoFacts DEF Bookkeeping
  <2>6. Make(t)
    BY <1>4, <2>1, <2>4 DEF EnsureLedger, Make, Own
  <2>7. QED
    BY <1>2, <2>5, <2>6
<1>5. ASSUME NEW p \in Proc, ApplyMigration(p) PROVE [LogNext]_logVars
  <2>1. PICK q : q = proc[p]
    OBVIOUS
  <2>2. PICK s : s = Head(q.todo)
    OBVIOUS
  <2>3. PICK n : n = q.done[s] + 1
    OBVIOUS
  <2>4. /\ q.build \in Build /\ <<q.build, q.scopes>> \in Valid /\ s \in q.scopes /\ s \in Scope
        /\ n \in 1..Len(Embedded[q.build][s].migrations)
        /\ Embedded[q.build][s].migrations[n] \in Rows(Embedded[q.build][s])
        /\ Extend(q.build, q.scopes, s, n)
    BY <1>5, <2>1, <2>2, <2>3, ApplyExtends
  <2>5. Record(q.build, s, Embedded[q.build][s].migrations[n])
    BY <2>4 DEF Extend
  <2>6. ledger' # ledger
    BY <2>4, <2>5, RecordFacts DEF MigrationInv
  <2>7. n \in DOMAIN Embedded[q.build][s].migrations
    BY <2>4, ListFacts
  <2>8. PICK c : c = <<q.build, q.scopes>>
    OBVIOUS
  <2>9. c \in Valid /\ s \in c[2] /\ n \in DOMAIN Embedded[c[1]][s].migrations
        /\ Extend(c[1], c[2], s, n)
    BY <2>4, <2>7, <2>8
  <2>10. QED
    BY <2>6, <2>9 DEF LogNext
<1>6. ASSUME NEW p \in Proc, Erase(p) PROVE [LogNext]_logVars
  BY <1>6 DEF Erase, LogNext
<1>7. CASE UNCHANGED vars
  BY <1>7 DEF vars, logVars
<1>8. ASSUME NEW p \in Proc, Migrates(p) PROVE [LogNext]_logVars
  BY <1>1, <1>3, <1>4, <1>5, <1>8
     DEF Migrates, Connect, Refuse, LoadApplied, Mismatch, ScopeApplied, Unlock, logVars, pgVars
<1>9. ASSUME NEW p \in Proc, Inspects(p) PROVE [LogNext]_logVars
  BY <1>1, <1>9 DEF Inspects, InspectLedger, InspectCatalog
<1>10. ASSUME NEW p \in Proc, Resets(p) PROVE [LogNext]_logVars
  BY <1>1, <1>6, <1>10 DEF Resets, InspectTarget, Stop, Remove, Recreate, logVars, pgVars
<1>11. ASSUME ComposeUp \/ \E o \in ByHand : Alter(o) PROVE [LogNext]_logVars
  BY <1>1, <1>2, <1>11 DEF ComposeUp, Alter
<1>12. QED
  BY <1>1, <1>7, <1>8, <1>9, <1>10, <1>11 DEF Next, Begin, Fail, SessionEnds, logVars, pgVars

\* Migrator.Apply, the inspector and the reset, for any number of processes and
\* builds, with stops at every step and objects added by hand, keep one log.
THEOREM MigratorKeepsOneLog == Spec => MigratesOneLog
<1>1. Init => LogInit
  BY DEF Init
<1>2. QED
  BY <1>1, StepKeepsLog, MigrationInvHolds, PTL DEF Spec, MigratesOneLog, LogSpec

\* What no later migrate makes up is never missing: a complete scope has all
\* grants of its build, if a change of grants comes with a migration.
THEOREM CompleteScopesAreGranted == Spec => []CompleteIsGranted
  BY MigratorKeepsOneLog, LogGrantsAll, PTL DEF MigratesOneLog

-----------------------------------------------------------------------------
(* Answers.                                                                *)

\* A running command goes on, ends by itself, or is ended.
LEMMA CommandSteps ==
  ASSUME MigrationInv, [Next]_vars, NEW p \in Proc, ~At(p, "ended")
  PROVE  \/ proc'[p] = proc[p]
         \/ proc'[p] = Ended(proc[p], "failed")
         \/ Migrates(p) \/ Inspects(p) \/ Resets(p)
<1>1. DOMAIN proc = Proc
  BY DEF MigrationInv, ServerOK
<1>2. ASSUME NEW o \in Proc, o # p, NEW r, Becomes(o, r) PROVE proc'[p] = proc[p]
  BY <1>1, <1>2 DEF Becomes
<1>3. ASSUME NEW o \in Proc, NEW c \in Command, NEW b \in Build, NEW S, Begin(o, c, b, S)
      PROVE  proc'[p] = proc[p]
  BY <1>2, <1>3 DEF Begin, At
<1>4. ASSUME NEW o \in Proc, o # p, Migrates(o) PROVE proc'[p] = proc[p]
  BY <1>2, <1>4 DEF Migrates, Connect, Refuse, Lock, EnsureLedger, LoadApplied, Mismatch,
                    ApplyMigration, ScopeApplied, Unlock, Goes, Answers
<1>5. ASSUME NEW o \in Proc, o # p, Inspects(o) PROVE proc'[p] = proc[p]
  BY <1>2, <1>5 DEF Inspects, InspectLedger, InspectCatalog, Reports, Goes
<1>6. ASSUME NEW o \in Proc, o # p, Resets(o)
      PROVE  proc'[p] = proc[p] \/ proc'[p] = Ended(proc[p], "failed")
  <2>1. CASE Stop(o)
    BY <1>6, <2>1 DEF Stop
  <2>2. QED
    BY <1>2, <1>6, <2>1 DEF Resets, InspectTarget, Remove, Erase, Recreate, Goes
<1>7. ASSUME NEW o \in Proc, Fail(o)
      PROVE  proc'[p] = proc[p] \/ proc'[p] = Ended(proc[p], "failed")
  BY <1>1, <1>7 DEF Fail, Answers, Becomes
<1>8. QED
  BY <1>3, <1>4, <1>5, <1>6, <1>7 DEF Next, SessionEnds, ComposeUp, Alter, vars

\* A running command keeps its build and scopes until it ends, and only
\* Unlock ends it with success.
LEMMA CommandGoesOn ==
  ASSUME MigrationInv, [Next]_vars, NEW p \in Proc, ~At(p, "ended")
  PROVE  \/ /\ proc'[p].build = proc[p].build /\ proc'[p].scopes = proc[p].scopes
            /\ proc'[p].step # "ended"
         \/ Unlock(p)
         \/ proc'[p].answer \in {"failed", "refused", "reported"}
<1>1. DOMAIN proc = Proc /\ proc[p] \in ProcSet /\ proc[p].step # "ended"
  BY DEF MigrationInv, ServerOK, Knows, At
<1>2. ASSUME NEW answer, proc'[p] = Ended(proc[p], answer) PROVE proc'[p].answer = answer
  BY <1>2 DEF Ended, Idle
<1>3. ASSUME NEW step \in Steps \ {"ended"}, NEW todo, Goes(p, step, todo)
      PROVE  /\ proc'[p].build = proc[p].build /\ proc'[p].scopes = proc[p].scopes
             /\ proc'[p].step # "ended"
  <2>1. proc'[p] = [proc[p] EXCEPT !.step = step, !.todo = todo]
    BY <1>1, <1>3 DEF Goes, Becomes
  <2>2. QED
    BY <1>1, <2>1 DEF ProcSet
<1>4. CASE Migrates(p)
  <2>1. ASSUME Refuse(p) PROVE proc'[p].answer = "refused"
    BY <1>1, <1>2, <2>1 DEF Refuse, Answers, Becomes
  <2>2. ASSUME LoadApplied(p) \/ Mismatch(p) \/ ApplyMigration(p) \/ ScopeApplied(p)
        PROVE  /\ proc'[p].build = proc[p].build /\ proc'[p].scopes = proc[p].scopes
               /\ proc'[p].step # "ended"
    <3>1. CASE LoadApplied(p)
      <4>1. PICK n, step, todo :
              /\ proc'[p] = [proc[p] EXCEPT !.done[Head(proc[p].todo)] = n, !.step = step, !.todo = todo]
              /\ step \in {"applying", "loading"}
        BY <1>1, <3>1 DEF LoadApplied, Becomes
      <4>2. PICK done : done = [proc[p].done EXCEPT ![Head(proc[p].todo)] = n]
        OBVIOUS
      <4>3. proc'[p] = [proc[p] EXCEPT !.done = done, !.step = step, !.todo = todo]
        BY <1>1, <4>1, <4>2 DEF ProcSet
      <4>4. QED
        BY <1>1, <4>1, <4>3 DEF ProcSet
    <3>2. CASE Mismatch(p)
      BY <1>1, <3>2 DEF Mismatch, Becomes, ProcSet
    <3>3. CASE ApplyMigration(p)
      BY <1>1, <3>3 DEF ApplyMigration, Becomes, ProcSet, At
    <3>4. CASE ScopeApplied(p)
      <4>1. \/ proc'[p] = [proc[p] EXCEPT !.step = "unlocking", !.todo = <<>>, !.answer = "migrated"]
            \/ Goes(p, "applying", Tail(proc[p].todo))
        BY <1>1, <3>4 DEF ScopeApplied, Becomes
      <4>2. CASE Goes(p, "applying", Tail(proc[p].todo))
        BY <1>3, <4>2 DEF Steps, SessionStep
      <4>3. QED
        BY <1>1, <4>1, <4>2 DEF ProcSet
    <3>5. QED
      BY <2>2, <3>1, <3>2, <3>3, <3>4
  <2>3. QED
    BY <1>3, <1>4, <2>1, <2>2 DEF Migrates, Connect, Lock, EnsureLedger, Steps, SessionStep
<1>5. CASE Inspects(p)
  <2>1. ASSUME NEW s, NEW state, Reports(p, s, state)
        PROVE  \/ /\ proc'[p].build = proc[p].build /\ proc'[p].scopes = proc[p].scopes
                  /\ proc'[p].step # "ended"
               \/ proc'[p].answer = "reported"
    <3>1. PICK q : q = [proc[p] EXCEPT !.report = <<s, state>>]
      OBVIOUS
    <3>2. q.build = proc[p].build /\ q.scopes = proc[p].scopes
      BY <1>1, <3>1 DEF ProcSet
    <3>3. proc'[p] = Ended(q, "reported") \/ proc'[p] = [q EXCEPT !.step = "reading", !.todo = Tail(proc[p].todo)]
      BY <1>1, <2>1, <3>1 DEF Reports, Becomes
    <3>4. CASE proc'[p] = Ended(q, "reported")
      BY <3>4 DEF Ended, Idle
    <3>5. CASE proc'[p] = [q EXCEPT !.step = "reading", !.todo = Tail(proc[p].todo)]
      BY <1>1, <3>1, <3>2, <3>5 DEF ProcSet
    <3>6. QED
      BY <3>3, <3>4, <3>5
  <2>2. QED
    BY <1>3, <1>5, <2>1 DEF Inspects, InspectLedger, InspectCatalog, Steps, SessionStep
<1>6. CASE Resets(p)
  <2>1. CASE Stop(p)
    <3>1. proc'[p] = [proc[p] EXCEPT !.step = "removing"]
      BY <2>1 DEF Stop
    <3>2. QED
      BY <1>1, <3>1 DEF ProcSet
  <2>2. CASE InspectTarget(p)
    <3>1. proc'[p] = [proc[p] EXCEPT !.step = "stopping", !.began = volume]
      BY <1>1, <2>2 DEF InspectTarget, Becomes
    <3>2. QED
      BY <1>1, <3>1 DEF ProcSet
  <2>3. QED
    BY <1>3, <1>6, <2>1, <2>2 DEF Resets, Remove, Erase, Recreate, Steps, ResetStep
<1>7. QED
  BY <1>1, <1>2, <1>4, <1>5, <1>6, CommandSteps

\* Success is told of what the database holds at that moment.
LEMMA SuccessIsTrue ==
  ASSUME MigrationInv, MigrationInv', [Next]_vars, NEW p \in Proc, proc[p].step # "ended",
         proc'[p].answer \in {"migrated", "reset"}
  PROVE  /\ \A s \in proc[p].scopes : /\ ledger'[s] = Rows(Own(p, s))
                                      /\ ExpectedCatalog(Own(p, s)) \subseteq catalog'
         /\ proc'[p].answer = "reset" => volume' # proc[p].began
<1>1. PICK q : q = proc[p]
  OBVIOUS
<1>2. Knows(p, q) /\ q.step # "ended" /\ q.scopes \subseteq Scope
  BY <1>1, KnowsNow DEF MigrationInv, Knows, ProcSet
<1>3. \/ /\ proc'[p].build = q.build /\ proc'[p].scopes = q.scopes /\ proc'[p].step # "ended"
      \/ Unlock(p)
  BY <1>1, CommandGoesOn DEF At
<1>4. /\ \A s \in q.scopes : /\ ledger'[s] = Rows(Embedded[q.build][s])
                             /\ Embedded[q.build][s].objects \subseteq catalog'
      /\ proc'[p].answer = "reset" => volume' # q.began
  <2>1. CASE Unlock(p)
    <3>1. /\ q.step = "unlocking" /\ ledger' = ledger /\ catalog' = catalog /\ volume' = volume
          /\ proc'[p].answer = IF q.command = "reset" /\ q.answer = "migrated" THEN "reset" ELSE q.answer
      BY <1>1, <2>1 DEF Unlock, At, Answers, Becomes, Ended, Idle, dockerVars, MigrationInv, ServerOK
    <3>2. q.answer \in {"migrated", "reset"}
      BY <3>1
    <3>3. q.answer = "migrated" /\ \A s \in q.scopes : Complete(q, s)
      BY <1>2, <3>2 DEF Knows, Finished
    <3>4. q.command = "reset" => volume # q.began
      BY <1>2, <3>1 DEF Knows, Replaced, ReplacedStep, SessionStep
    <3>5. QED
      BY <3>1, <3>3, <3>4 DEF Complete
  <2>2. CASE /\ proc'[p].build = q.build /\ proc'[p].scopes = q.scopes /\ proc'[p].step # "ended"
    <3>1. /\ proc'[p].answer = "migrated"
          /\ \A t \in proc'[p].scopes : /\ ledger'[t] = Rows(Embedded[proc'[p].build][t])
                                       /\ Embedded[proc'[p].build][t].objects \subseteq catalog'
      BY <2>2 DEF MigrationInv, Knows, Finished, Complete
    <3>2. QED
      BY <2>2, <3>1
  <2>3. QED
    BY <1>3, <2>1, <2>2
<1>5. \A s \in q.scopes : \A m \in Rows(Embedded[q.build][s]) : m.creates \subseteq catalog'
  BY <1>2, <1>4 DEF MigrationInv, RowsAreCreated
<1>6. \A s \in q.scopes : ExpectedCatalog(Embedded[q.build][s]) \subseteq catalog'
  BY <1>4, <1>5 DEF ExpectedCatalog
<1>7. QED
  BY <1>1, <1>4, <1>6 DEF Own

\* A scope reported current still holds the migrations its ledger had when it
\* was read.
LEMMA ReportIsTrue ==
  ASSUME MigrationInv, [Next]_vars, NEW p \in Proc, proc[p].step = "fingerprinting",
         proc'[p].report # proc[p].report
  PROVE  Rows(Own(p, proc'[p].report[1])) \subseteq ledger'[proc'[p].report[1]]
<1>1. PICK q : q = proc[p]
  OBVIOUS
<1>2. PICK s : s = Head(q.todo)
  OBVIOUS
<1>3. Knows(p, q) /\ q.step = "fingerprinting" /\ q \in ProcSet
  BY <1>1, KnowsNow DEF MigrationInv, Knows
<1>4. InspectCatalog(p)
  <2>1. proc'[p] # proc[p]
    OBVIOUS
  <2>2. proc'[p] # Ended(proc[p], "failed")
    BY DEF Ended, Idle
  <2>3. QED
    BY <2>1, <2>2, CommandSteps
       DEF At, Migrates, Connect, Refuse, Lock, EnsureLedger, LoadApplied, Mismatch,
           ApplyMigration, ScopeApplied, Unlock, Inspects, InspectLedger,
           Resets, InspectTarget, Stop, Remove, Erase, Recreate
<1>5. PICK state : Reports(p, s, state) /\ ledger' = ledger
  BY <1>1, <1>2, <1>4 DEF InspectCatalog, pgVars
<1>6. proc'[p].report = <<s, state>>
  <2>1. PICK u : u = [q EXCEPT !.report = <<s, state>>]
    OBVIOUS
  <2>2. u.report = <<s, state>> /\ u \in [step : Steps, command : Command \cup {Null},
           build : Build \cup {Null}, scopes : SUBSET Scope, todo : Todo, done : [Scope -> Nat],
           began : Volumes \cup {Null}, answer : Told \cup {Null}, report : {<<s, state>>}]
    BY <1>3, <2>1 DEF ProcSet
  <2>3. proc'[p] = Ended(u, "reported") \/ proc'[p] = [u EXCEPT !.step = "reading", !.todo = Tail(q.todo)]
    BY <1>1, <1>5, <2>1 DEF Reports, Becomes, MigrationInv, ServerOK
  <2>4. CASE proc'[p] = Ended(u, "reported")
    BY <2>2, <2>4 DEF Ended, Idle
  <2>5. CASE proc'[p] = [u EXCEPT !.step = "reading", !.todo = Tail(q.todo)]
    BY <2>2, <2>5
  <2>6. QED
    BY <2>3, <2>4, <2>5
<1>7. Rows(Embedded[q.build][s]) \subseteq ledger[s]
  BY <1>2, <1>3 DEF Knows, Inspected
<1>8. QED
  BY <1>1, <1>5, <1>6, <1>7 DEF Own

\* What a command answers is true at that moment, for any processes, builds and
\* interruptions.
THEOREM CommandsAnswerTruly == Spec => AnswersAreTrue
<1>1. MigrationInv /\ MigrationInv' /\ [Next]_vars =>
        [\A p \in Proc :
           /\ proc[p].step # "ended" /\ proc'[p].answer \in {"migrated", "reset"} =>
                \A s \in proc[p].scopes :
                  /\ ledger'[s] = Rows(Own(p, s))
                  /\ ExpectedCatalog(Own(p, s)) \subseteq catalog'
           /\ proc[p].step # "ended" /\ proc'[p].answer = "reset" => volume' # proc[p].began
           /\ proc[p].step = "fingerprinting" /\ proc'[p].report # proc[p].report =>
                LET r == proc'[p].report IN
                  r[2] = "current" => Rows(Own(p, r[1])) \subseteq ledger'[r[1]]]_vars
  BY SuccessIsTrue, ReportIsTrue
<1>2. QED
  BY <1>1, MigrationInvHolds, PTL DEF Spec, AnswersAreTrue
=============================================================================

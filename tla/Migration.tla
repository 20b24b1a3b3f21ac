------------------------------- MODULE Migration ------------------------------
(* The database commands: the migrator (adapters/postgres/migration), the    *)
(* status inspector and the reset of the local Compose database              *)
(* (internal/localdb).  Processes of several builds run them at once against *)
(* one container and one volume; each may stop at any step.                  *)
EXTENDS MigrationLog

CONSTANTS
  Proc,         \* the processes
  Volumes,      \* bound: the volumes that are told apart
  MaxCommands,  \* bound: commands issued
  Null

ASSUME NullAssumption == Null \notin Proc \cup Volumes \cup {"migrated", "reset"}

VARIABLES
  lock,         \* the session that holds the advisory lock, or Null
  container,    \* the Compose service: "running", "stopped" or "none"
  volume,       \* its volume, or Null
  commands,     \* commands issued so far
  proc          \* the processes

pgVars == <<ledger, catalog, granted, lock>>
dockerVars == <<container, volume, commands>>
vars == <<ledger, catalog, granted, lock, container, volume, commands, proc>>

Command == {"migrate", "status", "reset"}
State == {"absent", "pending", "current", "checksum_mismatch", "schema_drift"}

\* The steps a process takes on a database session.
SessionStep == {"locking", "ensuring", "loading", "applying", "unlocking",
                "reading", "fingerprinting"}
ResetStep == {"validating", "stopping", "removing", "erasing", "recreating"}

Known == <<"core", "directory">>
InOrder(S) == IF "directory" \in S THEN Known ELSE <<"core">>

\* The program knows a volume by its name; "began", the very volume a reset has
\* found, is history for AnswersAreTrue.
Idle == [step |-> "ended", command |-> Null, build |-> Null, scopes |-> {}, todo |-> <<>>,
         done |-> [s \in Scope |-> 0], began |-> Null, answer |-> Null, report |-> Null]

TypeOK ==
  /\ \A s \in Scope : ledger[s] \subseteq UNION {Rows(Embedded[b][s]) : b \in Build}
  /\ lock \in Proc \cup {Null}
  /\ container \in {"running", "stopped", "none"}
  /\ volume \in Volumes \cup {Null}
  /\ volume = Null => catalog = {} /\ container = "none"
  /\ \A p \in Proc : proc[p].step \in SessionStep => container = "running"

Init ==
  /\ LogInit
  /\ lock = Null
  /\ container = "running"
  /\ volume \in Volumes
  /\ commands = 0
  /\ proc = [p \in Proc |-> Idle]

At(p, step) == proc[p].step = step
Own(p, s) == Embedded[proc[p].build][s]
Becomes(p, q) == proc' = [proc EXCEPT ![p] = q]
Goes(p, step, todo) == Becomes(p, [proc[p] EXCEPT !.step = step, !.todo = todo])
Ended(q, answer) == [Idle EXCEPT !.answer = answer, !.report = q.report]
Answers(p, answer) == Becomes(p, Ended(proc[p], answer))
ScopesOf(p) == InOrder(proc[p].scopes)

\* A command line starts: migrate and reset work on the configured scopes,
\* status on both known ones.
Begin(p, c, b, S) ==
  /\ At(p, "ended") /\ lock # p
  /\ commands < MaxCommands
  /\ commands' = commands + 1
  /\ Becomes(p, [Idle EXCEPT !.step = IF c = "reset" THEN "validating" ELSE "connecting",
                             !.command = c, !.build = b, !.scopes = S])
  /\ UNCHANGED <<pgVars, container, volume>>

\* The manifests are validated before a connection is made.
Refuse(p) ==
  /\ At(p, "connecting")
  /\ <<proc[p].build, proc[p].scopes>> \notin Valid
  /\ Answers(p, "refused")
  /\ UNCHANGED <<pgVars, dockerVars>>

Connect(p) ==
  /\ At(p, "connecting")
  /\ <<proc[p].build, proc[p].scopes>> \in Valid
  /\ container = "running"
  /\ IF proc[p].command = "status" THEN Goes(p, "reading", Known) ELSE Goes(p, "locking", <<>>)
  /\ UNCHANGED <<pgVars, dockerVars>>

\* Mutant: nothing keeps two migrators apart.
LockShared(p) ==
  /\ At(p, "locking")
  /\ lock' = p
  /\ catalog' = catalog \cup {MigrationSchema}
  /\ Goes(p, "ensuring", ScopesOf(p))
  /\ UNCHANGED <<ledger, granted, dockerVars>>

\* pg_advisory_lock, and the schema of the ledgers.
Lock(p) ==
  /\ At(p, "locking")
  /\ lock = Null
  /\ lock' = p
  /\ catalog' = catalog \cup {MigrationSchema}
  /\ Goes(p, "ensuring", ScopesOf(p))
  /\ UNCHANGED <<ledger, granted, dockerVars>>

EnsureLedger(p) ==
  /\ At(p, "ensuring")
  /\ catalog' = catalog \cup {LedgerTable(Own(p, Head(proc[p].todo)))}
  /\ LET rest == Tail(proc[p].todo) IN
       IF rest = <<>> THEN Goes(p, "loading", ScopesOf(p)) ELSE Goes(p, "ensuring", rest)
  /\ UNCHANGED <<ledger, granted, lock, dockerVars>>

\* Every scope's ledger is read and compared before any migration runs.
LoadApplied(p) ==
  /\ At(p, "loading")
  /\ LET s == Head(proc[p].todo)
         rest == Tail(proc[p].todo)
     IN  /\ Agrees(Own(p, s), ledger[s])
         /\ Becomes(p, [proc[p] EXCEPT !.done[s] = Cardinality(ledger[s]),
                          !.step = IF rest = <<>> THEN "applying" ELSE "loading",
                          !.todo = IF rest = <<>> THEN ScopesOf(p) ELSE rest])
  /\ UNCHANGED <<pgVars, dockerVars>>

Mismatch(p) ==
  /\ At(p, "loading")
  /\ LET s == Head(proc[p].todo) IN ~Agrees(Own(p, s), ledger[s])
  /\ Becomes(p, [proc[p] EXCEPT !.step = "unlocking", !.todo = <<>>, !.answer = "mismatch"])
  /\ UNCHANGED <<pgVars, dockerVars>>

\* One pending migration of the plan in one transaction: SQL, grants, ledger
\* row.  An object that is there already and a version that is recorded
\* already make it fail.
ApplyMigration(p) ==
  /\ At(p, "applying")
  /\ LET s == Head(proc[p].todo)
         n == proc[p].done[s] + 1
     IN  /\ n <= Len(Own(p, s).migrations)
         /\ Record(proc[p].build, s, Own(p, s).migrations[n])
         /\ Becomes(p, [proc[p] EXCEPT !.done[s] = n])
  /\ UNCHANGED <<lock, dockerVars>>

\* No migration of this scope is left in the plan.
ScopeApplied(p) ==
  /\ At(p, "applying")
  /\ LET s == Head(proc[p].todo)
         rest == Tail(proc[p].todo)
     IN  /\ proc[p].done[s] = Len(Own(p, s).migrations)
         /\ IF rest = <<>>
              THEN Becomes(p, [proc[p] EXCEPT !.step = "unlocking", !.todo = <<>>,
                                              !.answer = "migrated"])
              ELSE Goes(p, "applying", rest)
  /\ UNCHANGED <<pgVars, dockerVars>>

Unlock(p) ==
  /\ At(p, "unlocking")
  /\ lock' = Null
  /\ Answers(p, IF proc[p].command = "reset" /\ proc[p].answer = "migrated"
                  THEN "reset" ELSE proc[p].answer)
  /\ UNCHANGED <<ledger, catalog, granted, dockerVars>>

\* An error, a cancellation or the end of the process at any step, among them
\* the loss of the answer to a commit.  A failed unlock closes the connection.
Fail(p) ==
  /\ ~At(p, "ended")
  /\ Answers(p, "failed")
  /\ UNCHANGED <<pgVars, dockerVars>>

\* The server notices that the holder's connection is gone.
SessionEnds(p) ==
  /\ lock = p /\ At(p, "ended")
  /\ lock' = Null
  /\ UNCHANGED <<ledger, catalog, granted, dockerVars, proc>>

Reports(p, s, state) ==
  LET q == [proc[p] EXCEPT !.report = <<s, state>>]
      rest == Tail(proc[p].todo)
  IN  Becomes(p, IF rest = <<>> THEN Ended(q, "reported")
                 ELSE [q EXCEPT !.step = "reading", !.todo = rest])

\* The application role may look into the schema of the ledgers, and read this one.
MayLook == MigrationSchema \in catalog => <<MigrationSchema, "USAGE">> \in granted
MayRead(m) == <<LedgerTable(m), "SELECT">> \in granted

\* The inspector holds no lock: each statement sees what is committed by then.
InspectLedger(p) ==
  /\ At(p, "reading")
  /\ LET s == Head(proc[p].todo)
         m == Own(p, s)
     IN  /\ MayLook
         /\ \/ LedgerTable(m) \notin catalog /\ Reports(p, s, "absent")
            \/ /\ LedgerTable(m) \in catalog /\ MayRead(m)
               /\ \/ ~Agrees(m, ledger[s]) /\ Reports(p, s, "checksum_mismatch")
                  \/ /\ Agrees(m, ledger[s])
                     /\ \/ Behind(m, ledger[s]) /\ Reports(p, s, "pending")
                        \/ ~Behind(m, ledger[s]) /\ Goes(p, "fingerprinting", proc[p].todo)
  /\ UNCHANGED <<pgVars, dockerVars>>

InspectCatalog(p) ==
  /\ At(p, "fingerprinting")
  /\ LET s == Head(proc[p].todo)
         m == Own(p, s)
     IN  Reports(p, s, IF OwnedCatalog(m, catalog) = ExpectedCatalog(m)
                         THEN "current" ELSE "schema_drift")
  /\ UNCHANGED <<pgVars, dockerVars>>

\* The one running container of the service, with the volume the Compose file
\* names mounted, on the local Docker endpoint.
OneLocalTarget == container = "running"

\* Any other finding ends the reset before it changes anything.
InspectTarget(p) ==
  /\ At(p, "validating")
  /\ OneLocalTarget
  /\ Becomes(p, [proc[p] EXCEPT !.step = "stopping", !.began = volume])
  /\ UNCHANGED <<pgVars, dockerVars>>

\* Stopping the container ends every session.
Stop(p) ==
  /\ At(p, "stopping")
  /\ container' = IF container = "running" THEN "stopped" ELSE container
  /\ lock' = Null
  /\ proc' = [q \in Proc |->
       IF q = p THEN [proc[p] EXCEPT !.step = "removing"]
       ELSE IF proc[q].step \in SessionStep THEN Ended(proc[q], "failed") ELSE proc[q]]
  /\ UNCHANGED <<ledger, catalog, granted, volume, commands>>

\* Only a stopped container is removed.
Remove(p) ==
  /\ At(p, "removing")
  /\ container' = IF container = "stopped" THEN "none" ELSE container
  /\ Goes(p, "erasing", <<>>)
  /\ UNCHANGED <<pgVars, volume, commands>>

\* A volume that a container uses, or that is not there, cannot be removed.
Erase(p) ==
  /\ At(p, "erasing")
  /\ container = "none" /\ volume # Null
  /\ volume' = Null
  /\ Wipe
  /\ Goes(p, "recreating", <<>>)
  /\ UNCHANGED <<lock, container, commands>>

\* A volume that is missing is made; it is none that a running reset has found.
Up == /\ container' = "running"
      /\ IF volume # Null THEN volume' = volume
         ELSE volume' \in Volumes \ {proc[p].began : p \in Proc}

\* The fresh database is then migrated like any other.
Recreate(p) ==
  /\ At(p, "recreating")
  /\ Up
  /\ Goes(p, "connecting", <<>>)
  /\ UNCHANGED <<pgVars, commands>>

\* Somebody starts the database by hand, or changes its schema.
ComposeUp ==
  /\ container # "running"
  /\ Up
  /\ UNCHANGED <<pgVars, commands, proc>>

Alter(o) ==
  /\ container = "running"
  /\ o \notin catalog
  /\ Make(o)
  /\ UNCHANGED <<lock, dockerVars, proc>>

Migrates(p) ==
  \/ Connect(p) \/ Refuse(p) \/ Lock(p) \/ EnsureLedger(p) \/ LoadApplied(p) \/ Mismatch(p)
  \/ ApplyMigration(p) \/ ScopeApplied(p) \/ Unlock(p)

Inspects(p) == InspectLedger(p) \/ InspectCatalog(p)

Resets(p) == InspectTarget(p) \/ Stop(p) \/ Remove(p) \/ Erase(p) \/ Recreate(p)

Next ==
  \/ \E p \in Proc :
       \/ \E b \in Build, S \in Selections :
            \E c \in Command : Begin(p, c, b, IF c = "status" THEN Scope ELSE S)
       \/ Migrates(p)
       \/ Inspects(p)
       \/ Resets(p)
       \/ Fail(p)
       \/ SessionEnds(p)
  \/ ComposeUp
  \/ \E o \in ByHand : Alter(o)

Spec == Init /\ [][Next]_vars

\* The commands keep the promise of MigrationLog, whatever is interrupted and
\* whichever builds run at once: the advisory lock covers the comparison and
\* everything applied after it, and the comparison covers every scope.
MigratesOneLog == LogSpec

\* What a command answers describes the database at that moment.  A migrate
\* that succeeds leaves every selected scope exactly at its build's last
\* migration; a reset that succeeds has in addition replaced the volume it
\* had found; a scope reported current holds all migrations of the build,
\* though ledger and catalog are read by two statements without the lock.
AnswersAreTrue ==
  [][\A p \in Proc :
       /\ proc[p].step # "ended" /\ proc'[p].answer \in {"migrated", "reset"} =>
            \A s \in proc[p].scopes :
              /\ ledger'[s] = Rows(Own(p, s))
              /\ ExpectedCatalog(Own(p, s)) \subseteq catalog'
       /\ proc[p].step # "ended" /\ proc'[p].answer = "reset" => volume' # proc[p].began
       /\ proc[p].step = "fingerprinting" /\ proc'[p].report # proc[p].report =>
            LET r == proc'[p].report IN
              r[2] = "current" => Rows(Own(p, r[1])) \subseteq ledger'[r[1]]]_vars
===============================================================================

# A verification project for Stacks

Stacks reads meeting documents from Google Drive, has a model extract cited
statements from them, stores evidence, mentions, claims and observations in
PostgreSQL, lets reviewers decide who is meant, and answers temporal queries
over what was recorded when. This directory holds TLA+ models of the parts of
it that are hard to test, TLC configurations that check them on small
instances, and TLAPS proofs of what matters most for every size.

Contents

1. The system
2. The modules and the code
3. What the runs check
4. What is proved
5. What is not modelled
6. The plan

## 1. The system

| Component | State it keeps | Operations | Interacts with |
|---|---|---|---|
| Ingestion sync (`internal/ingest/service.go`) | none between runs; one process walks one folder | `Sync`, `processDocument`: list, get, claim, call the model, complete or fail | Drive (calls), model client (calls), ingest repository (transactions) |
| Ingest repository (`internal/ingest/postgres.go`) | none | `PrepareVersion`, `CompleteVersion`, `RecordFailure`, `EntitySnapshots`, each one transaction | document store, extraction lease, identity, admission, observations |
| Extraction lease (`adapters/postgres/extraction.go`) | `extraction_runs`, `extraction_attempts` | `PrepareExtraction`, `RecordExtractionFailure`, `CheckExtractionCompletion`, `CompleteExtraction` | row locks only |
| Document store (`adapters/postgres/documents.go`) | `source_documents` with `current_version_id`, `document_versions`, sections, revision observations, evidence | `PutDocumentVersion`, `PutSourceRevisionObservation`, `PutEvidenceSpan`, `SetCurrentDocumentVersion` | the current version decides what review and directory work see |
| Identity authority (`adapters/postgres/identity.go`) | mentions, proposals, candidates, resolution decisions, aliases | `AppendResolutionDecision` and the inserts of a write set | written by ingestion, reviewers and the directory worker |
| Admission authority (`adapters/postgres/admission.go`) | admission decisions per run and per mention | `AppendAdmissionDecision` | written by ingestion; read by review |
| Review (`internal/app/review.go`, `adapters/postgres/review.go`) | none of its own | list, accept, reject, create a person, correct | identity authority under proposal locks |
| Directory enrichment (`internal/directory`, `adapters/postgres/directory.go`) | lookups, candidates, provider links | `Enrich`: load work, search, evaluate, persist | identity authority, Google Directory |
| Temporal queries (`adapters/postgres/temporal_query.go`, `internal/query`) | none; one repeatable-read transaction per question | `Service.Query`: normalise, read the snapshot in five statements, execute an intent, validate the result | everything recorded, through its dates |
| Temporal algebra (`core/temporal`) | none: pure functions | aggregate, compare, trajectory, causal | called by queries |
| Migrations (`adapters/postgres/migration`) | one ledger per scope, the catalog, the application role's grants | `Apply`, `Status` | session advisory lock; several builds share a database |
| Local reset (`internal/localdb`) | the Compose container and its volume | inspect, stop, remove, erase, recreate, then migrate | Docker; every command that uses the database |
| Write-set resolution (`internal/ingest/canonical.go`, `validate.go`) | none | turn an extraction into the rows of a write set | called by the sync |
| Query planning (`internal/queryplan`) | none | turn a model's proposal into a typed query | model client |
| Model clients, Drive, OAuth, configuration, CLI, doctor, telemetry | none that outlives a call | I/O and wiring | |

What is hard. Several sync processes, reviewers and the directory worker write
the same tables from machines with their own clocks. Leases are granted and
taken over by the clock of whoever asks; times are read before the transaction
that uses them; a commit can succeed while its caller sees an error; a process
can die between any two transactions; provider content changes between two
provider calls; decisions are taken on data read outside the transaction that
records them. A query reads in several statements what many transactions
write, dates what it reads by clocks that do not agree, and resolves the same
authority by several routes. Builds of different ages migrate one database,
which somebody may reset meanwhile.

What makes each part correct:

- lease: a derivation has at most one live attempt, attempts of it never
  overlap, history is append-only, a repeated call is recognised;
- ingestion: one write set per derivation, the current version is always a
  completely extracted one, work is not duplicated, every settled body is
  extracted in the end, and reported outcomes are durable;
- authorities: one effective decision per subject, decided in a chain without
  forks, reviewers override automation and never the other way round;
- review and directory: whoever accepts a directory account first owns it,
  automation takes no address for two people and never overrides a person, and
  a review decision is about the current version;
- queries: an answer is of one moment, rests on validated authority only,
  and as of a settled date is final;
- algebra: a value is reported only if nothing contests it, transitions and
  conflicts are those of the instants of the window, and nothing retained
  disappears;
- migrations and reset: every ledger is a log of one build's migrations, a
  complete scope has its grants, and what a command answers is true.

## 2. The modules and the code

### Lease

`Lease` models `adapters/postgres/extraction.go`. `runs` is one row per
derivation, `attempts` the history of a run in attempt order. Every
transaction locks the run row and its latest attempt before reading, so each
is one action: `Claim` is `PrepareExtraction` with its expiry of the old
attempt and its reactivation of the run, `Fail` is `RecordExtractionFailure`,
`Complete` is `CheckExtractionCompletion` with `CompleteExtraction` (one
transaction, same input). The answers that write nothing are predicates:
`AnswersCompleted`, `AnswersResumed`, `AnswersBusy`, `FailureRecorded`,
`CompletionRecorded`; anything else is `ErrConflict` and a rollback. The
caller's times are arbitrary members of `Time`, because no clock of a caller
is checked against another. The state `canceled` of the table is written by no
code and left out.

### Ingest and Publication

`Ingest` extends `Lease` with the processes that run `processDocument`: the
record `worker[w]` is a process's local state between two repository calls
(`pc`, the version in hand, the attempt it owns, the lease expiry it was told,
its attempt deadline, the last clock reading it still carries, and the outcome
reported). Actions are named for what they do to a document: `List`, `Get`,
`Prepare...`, `StartAttempt`, `Generate...`, `CompleteVersion...`,
`RecordFailure...`, `Abandon`. A commit whose answer is lost is an action of
its own (`...Unacknowledged`). The provider is one counter per document
(`Edit`); a version is the pair of the listed and the fetched revision, since
the digest covers both and the two come from different calls.

`Publication` is the abstract specification: derivations publish once, and the
current version of a document moves only with a publication of it.

### Authority and AuthorityTx

`Authority` is what the two decision tables promise: each target (a resolution
proposal, or an admission target) has a chain of decisions that only grows at
its effective end. `AuthorityTx` is `AppendResolutionDecision` of
`adapters/postgres/identity.go`, statement by statement: the unlocked look for
an exact retry, the advisory lock, the second look under the lock, the check
of the predecessor, the insert with its unique violations, the commit and its
lost answer. `client[c]` is the caller's transaction (`pc`, the command, the
answer). `AppendAdmissionDecision` of `adapters/postgres/admission.go` has the
same statements; there the target row is inserted first, which changes nothing
for later readers. `RefuseAutomatic` leaves open whether the candidate of an
automatic decision is refused, since candidates are data. A transaction appends
one decision: ingestion appends several in one, all about targets that its own
run has just created.

### Review

`Review` extends `Authority` with reviewers (`internal/app/review.go`,
`adapters/postgres/review.go`) and directory workers
(`internal/directory/service.go`, `adapters/postgres/directory.go`). `tx[a]` is
a caller's command and transaction; its `pc` names the next statement.
`batch[w]` is what `Enrich` loaded for its loop: the work, the owners of each
address and the links of each account, which every evaluation of the loop uses
however old they are. `lock` holds the advisory locks of proposals, addresses
and accounts, `shared` the readers of the document row; `decisions`, `proof`,
`staged` and `entities` are tables. The statements between which another
transaction may commit are actions: `LockProposal`, `RequireEligible`,
`LockAuthority` (one lock each, in key order), `ReadEmailOwners`,
`ReadProviderOwners`, `RequireProviderOwner`, and the inserts (`Persist`,
`AppendDecision`).

Abstracted: one document; an account has one profile snapshot, and `found` are
the profiles that carry the address; whether a profile is trusted
(approved domain, source-bound or reviewer-supplied address) is a free choice;
`VerifyReviewerEmail` reads owners and links at once; the admission locks of
run and mention, which only reviewers of one run contend for after their
proposal, are left out, because nothing changes an admission after ingestion;
decision IDs are used in order, and `Room` (a bound) leaves an unused one for
every running transaction.

### KnowledgeScope, TemporalSnapshot

`KnowledgeScope` is the recorded-time scope of a question (`core/temporal/plan.go`).

`TemporalSnapshot` models how a query reads the store while others write it.
`store` is the committed tables, each row with its date and each authority as
a chain of decisions. A writer first reads its clock and builds its write set
(`DateExtraction`, `DateDecision`, `DateRejection`, `DateCorrection`,
`DateAdmission`), and commits it later or never (`Commit...`, `Abandon`): a
date says when a writer looked at its clock, not when the row became visible.
`reader[r]` is the transaction of one query. The statements of
`loadTemporalQuerySnapshot` are the actions `ReadEntities`, `ReadAuthority`,
`ReadQualification`, `ReadValues` and `ReadEvidence`, between which anything may commit;
`snapshot` is what the first statement fixed, `answers` a history variable
with what each later store would have answered. The common table expressions
of the SQL are the operators `View`, `Admitted`, `EffectiveDecisions`,
`Resolved`, `Classification`, `Retained`, `Coverage` and `Cited`; the
authority statement's own route is `RelevantObservations` and what follows
from it. `PairObservations` is the other reader of current knowledge
(`adapters/postgres/query.go`).

Abstracted: a mention has one proposal, a run's admission and its version are
one with the run's rows, the mentions and observations of a run carry one date,
and an observation's value, extent and confidence are left to `TemporalQuery`.

### TemporalState, TemporalQuery

`TemporalState` is `core/temporal` as operators over sets of candidates:
`Summary` (aggregation of a point, a window or the moment before one),
`Changes` (two windows), `Trajectory` (the partition of a window by its
boundaries) and `CausalLinks`. Groups in Go are built one candidate at a time
and merged; here a group is a subset of the candidates, because what the code
computes of it does not depend on the order.

`TemporalQuery` is `Service.Query` over a snapshot: the request's validation
(`WellFormed`), the snapshot's rows (`Read`), the four intents (`Execute...`)
with their gaps and their chronological order, the limits, and the validator
that checks the result once more (`ValidResult`). Its actions are the answers:
`Refuse`, `NotFound`, `Answered`. `MCTemporal` puts both halves of a query
in one run; a behaviour plays one of the two scenes.

### Manifest, MigrationLog, Migration

`Manifest` is what a build embeds and how it is validated
(`adapters/postgres/migration/manifest.go`): migrations, owned objects, grants.
`MigrationLog` is the abstract promise: a ledger grows by the next migration of
a build that agrees with all selected ledgers, together with the objects and
the grants of that migration. `Migration` is the commands, step by step, in
processes that may be of different builds: `Lock`, `EnsureLedger`,
`LoadApplied`, `Mismatch`, `ApplyMigration`, `ScopeApplied`, `Unlock` of the
migrator, `InspectLedger` and `InspectCatalog` of the status inspector, and
`InspectTarget`, `Stop`, `Remove`, `Erase`, `Recreate` of the local reset. Any step may
`Fail`, any session may end (`SessionEnds`), somebody may start the service by
hand (`ComposeUp`) or add an object to the schema (`Alter`; nothing is dropped
or changed by hand, and there is one application role). Every manifest is
validated when it is loaded, selected or not, and the selected ones together
(`Valid`). The Compose volume keeps its name for ever; `Volumes` tells its
successive contents apart, and `began` is the one a reset has found, kept only
to state what its success means. A migration's SQL stands for
the objects it creates, a fingerprint for the owned part of the catalog, the
checks of labels, mounts and contexts for one condition on the container
(`OneLocalTarget`). A manifest's lists are sets, so duplicates in them cannot
be expressed.

Each module ends its definitions of code with the properties; definitions
marked `Mutant` are variants of a definition with a plausible bug, kept to
show that a property notices it. They are used by no other definition.

## 3. What the runs check

| Run | Question | Bounds, and why they are enough |
|---|---|---|
| `lease` | lease invariants under arbitrary clocks | 2 derivations, 3 attempt identities, clocks 0..3, lease of 2: an attempt can fail inside its lease, be taken over at its end, and be retried too early or in time |
| `ingest_derivation` | duplicate model work, durable outcomes, and that every settled body is extracted | 2 fair processes, 1 version, lease 3, timeout 2, clocks apart by the margin of 1, 1 fault up to time 2; time up to 7 leaves room for a take-over and a retry after the fault, and claims never run out |
| `ingest_versions` | pointer, refinement of `Publication` | 2 processes, 3 versions of one document (one torn), 1 fault |
| `ingest_alone` | the pointer settles on the newest revision | 1 fair process, 2 revisions, 2 faults up to time 2 |
| `ingest_reobserved` | the repository README's claim on re-observation | expected to fail |
| `authority` | the log, retries and answers; every append is answered | 3 callers that issue any of 5 commands over 2 targets and 3 IDs: competing initial decisions, corrections of two predecessors, a command repeated or issued twice, one ID used for two targets. Two corrections of one predecessor under different IDs need a sixth command, which takes the run past five minutes: of them there is only the proof (`TxKeepsSingleHistory`) |
| `review` | account owners, links and addresses | 2 workers, 1 reviewer, 2 mentions of one address, 2 accounts, 2 entities, 2 decisions: competing links, and a link and its correction |
| `review_versions` | decisions are of the current version; no circle of waiting | 1 worker, 1 reviewer, 2 versions that alternate, an address and an account that both lock, 2 decisions |
| `review_owner` | a directory account has one owner | expected to fail |
| `temporal` | a query's snapshot, and what the service makes of it | reading: 1 extraction of 1 observation, 2 writers with clocks 1 apart (one also admits identity decisions), clocks 1..2, 2 decisions in a chain and 5 in all, 1 commit while a query is at work, queries as of 1 and of now: late commits, a correction dated before what it corrects, a decision admitted and quarantined. Evaluating: every set of at most 4 of 7 recorded observations with extents of all kinds around the window [2, 4), and 8 requests of all intents, three of which fail |
| `temporal_accepted` | an accepted identity is used by queries | expected to fail |
| `migration` | one log, grants, answers | 2 processes, 3 commands, 4 builds (a base, a release two migrations ahead, a branch, one edited after release whose directory scope claims a core table), a table made by hand, 3 volumes (two resets never need more), stops anywhere |

Bounds are constants: `MaxRevision`, `MaxClock`, `MaxFaults`,
`MaxFaultClock`, `MaxClaims`, `MaxTime`, `MaxSkew`, `MaxDepth`,
`MaxDecisions`, `MaxLate`, `MaxRecorded`, `MaxCommands`, `Volumes`. Runs that stop because a bound is
used up disable the deadlock check and say so: claims (`ingest_versions`,
`ingest_reobserved`), decision IDs (the runs of `Review`), decisions and
observations (the runs of `MCTemporal`), commands (`migration`). `lease`
stops when no attempt identity is left. `ingest_derivation`, `ingest_alone`
and `authority` check deadlock.

Fairness. `FairSpec` assumes that time passes and that a process which is not
killed runs its next statement: `processDocument` is straight-line code with
timeouts on every call, and an operator (or a scheduler) starts the next sync.
Nothing is assumed of faults, edits or of which document comes next; faults
stop at `MaxFaultClock`, without which no retry could ever succeed.

In `AuthorityTx` and `Review` a connection that has a statement to run runs it
(weak fairness), and PostgreSQL grants an advisory lock in the order of its
waiters, so that a lock freed again and again is granted at last (strong
fairness on the lock steps). Nobody is assumed to issue commands, and failures
are never assumed to stop. `Migration` and the queries state no liveness: a
migrator that waits for its lock may wait as long as another one lives, and a
query ends with its statements.

`review_owner` shows a second disagreement. The design of the enrichment says
that conflicting active links "are rejected transactionally and sent to
review" (line 283 of the design document of 2026-07-24), and two tests are
named for a provider subject having one owner. Accepting a candidate and the
directory worker keep to it, but a correction carries the link of its
predecessor to the corrected entity without the account's lock and without
the check: if two mentions are linked to the account, correcting one leaves it
with two owners. `UncorrectedSubjectHasOneOwner` is what the code does keep,
and `review` checks it.

`ingest_reobserved` shows a disagreement of code and documentation. README
line 763 of the repository says that observing a completed version again "can
make that version current again". The pointer is written only by
`CompleteVersion`. TLC finds two overlapping syncs of which the one with the
older listing completes last: the older version is current, and observing the
newer, completed one reports `unchanged` and leaves it so.

`temporal_accepted` shows a third. README line 812 of the repository says that
"a subsequent query uses the corrected identity authority". The qualification
statement resolves a mention only if its accepted decision has an admission of
its own (`temporal_query.go:1092`), and no code under `cmd/` or `internal/`
writes one: as shipped, no extracted observation is retained through an
identity that a reviewer has accepted. The `temporal` run therefore also has a
writer that calls the adapter's admission API, as its tests do.

Smaller differences between documents and code, seen while modelling and not
given a run:

- the design of cited temporal queries (lines 678 to 688) says that a chain
  exists only where the effect of one link is the cause of the next;
  `BuildCausalChain` returns every explicit link that certainly holds in the
  window, linked or not, and `CausalLinks` models that;
- a trajectory in which nothing changes is an empty result without a gap, even
  if facts hold all through the window; `NothingIsLost` says so;
- inside a trajectory an instant observation holds until the next boundary,
  at no later point of time otherwise: `TrajectoryIsPointwise` leaves instants out;
- a fact does not cite the uncertain or hypothesised observations that agree
  with it (`Summary`);
- `status` by the application role fails while the ledgers' schema exists and
  the first migration has not granted its use, where the repository's README
  (line 676) promises `absent`; it may report a passing `schema_drift` while a
  newer build migrates (line 681);
- a reset that stopped after its first Docker command cannot be repeated until
  the service has been started by hand (`reset.go:275`).

## 4. What is proved

`LeaseProofs` proves the invariants that `lease` checks (`LeaseTypeCorrect`,
`RunAndAttemptAgree`, `LeaseSafe`, `EndsInsideLease`), for all sets of
runs, attempts and times and every lease duration. They are inductive
together: `LeaseInv` states them for one run row and its history
(`RowAgrees`, `HistoryOK`). That the leases are disjoint is not inductive
alone: a new claim is compared with the latest attempt only, so the argument
needs that every other attempt has ended, that each attempt ended inside its
lease, and that the run row agrees with the latest attempt.
`HistoryNeverRewritten` is the action property from the same invariant, and
`RepetitionsAreAnswered` says that a caller whose answer was lost may repeat
its terminal call.

`IngestProofs` proves, for any number of processes, documents, revisions,
claims and faults and any skews:

- `IngestFollowsLease`: every step of `Ingest` is a step of `Lease` or leaves
  its tables alone, so all of `LeaseProofs` holds of the syncs;
- `IngestTypeCorrect`;
- `OneModelCallPerDerivation`: if no two clocks are apart by more than
  `LeaseDuration - AttemptTimeout`, no two processes work on one derivation
  at the same time. The invariant links a process to its attempt row
  (`Held`): only the process itself can end its attempt otherwise than by
  expiry, the deadline lies a margin before the lease's end, and the next
  claim is not before that end on the claimant's clock;
- `IngestImplementsPublication`: the refinement of `Publication`;
- `OutcomesAreDurable` and `CurrentStaysExtracted`: what a process reported,
  and what the pointer names, stays stored. The invariant `ResultInv` adds that
  attempt IDs are unique in a run, so that the row a report is about can be
  named; completed runs and ended attempts are never rewritten, by
  `LeaseProofs`.

`AuthorityProofs` proves the log, and `AuthorityTxProofs` its implementation,
for any number of callers, commands, targets and decisions. Of the log: `AuthorityLogIsSingle`
(one chain without forks and one effective end per target, inductive only
together: a new successor is compared with effective ends, so that there is
one of them has to be known) and `ReviewerStaysFinal`. Of the transactions:
`TxImplementsAuthority`, `TxKeepsSingleHistory`, `TxAnswersAreDurable`,
`TxRetriesAreRecognised` and `TxTypeCorrect`. Their invariant says what a caller knows at each
statement: between the check and the insert it holds the target's lock, so the
check is still true, and a caller told of success finds its decision stored.

`ReviewProofs` proves, for any number of workers, reviewers, proposals,
addresses, accounts and versions, and with failures and cancellations
anywhere:

- `ReviewTypeCorrect`;
- `ReviewFollowsAuthority`: every command and every automatic match only
  appends to the log of `Authority`, so that `AuthorityProofs` holds of them
  (`ReviewerStaysFinalInReview`);
- `AutomaticEmailStaysUnique` and `UncorrectedSubjectStaysUnique`;
- `OwnedAccountsStayOwned` and `ReviewsStayOfCurrentVersion`.

None of them is inductive alone. `ReviewInv` says of each caller what it may
rely on at its statement (`CallerOK`): the locks of its address and account
since it has read their owners (`HoldsLocks`), that what it has read still
bounds the owners of what it has locked (`StillOwned`), and that the version
it has checked is current while it shares the document row (`StillEligible`).
What another caller stores meanwhile needs other locks (`Stores`,
`OtherStillOwned`), so it changes none of that. The uniqueness of accounts is
kept for decisions nobody has corrected: a correction stores without the
account's lock, and the proof fails there just as `review_owner` does.

`TemporalSnapshotProofs` proves, for any observations, mentions, evidence,
writers, readers and queries, any clock skew and any depth of the chains:

- `AnswersStayCoherent`: the six statements of a query tell what the state its
  transaction began in answers, and a conflict is that state's conflict. The
  checks of `ReadValues` and `ReadEvidence` therefore never fail of themselves;
- `AnswersStayValidated` and `RetainedStaysListed`: the authority statement and
  the list of a pair's observations, which find their rows by other joins,
  agree with the qualification statement;
- `SettledStaysFinal`: an answer about a date that every clock and every dated
  write set has passed never changes;
- `SnapshotTypeCorrect`.

`SnapshotInv` says of each transaction what its statements have found so far
(`ReaderOK`) and of the store (`RowsOK`) that an observation is stored with its
spans and that nothing is admitted before it is stored. The latter is what
makes answers final: a link is not dated and a span may carry an old date, so a
span that arrived after its observation would change the past. A commit adds
to the store only rows dated by its writer (`Later`), which a cutoff before
that date does not show (`ViewStays`). `TargetAssumption` says that the rows
of `admission_targets` of different kinds are different.

`TemporalQueryProofs` proves, for any observations, requests and limits:

- `LearningOnlyContests`: it follows from two facts about `core/temporal` alone,
  `PartOfSettled` (what settles a group settles each part of it that has
  support) and `MoreNeverReplaces`, which hold for any selection and cutoff;
- `ConflictsStayInstants`: an unresolved key of a window is called conflicting
  exactly when two of its supported values hold at one instant of the window.
  `CommonInstant` is the reason: two certain extents that reach into a window and
  overlap anywhere share an instant inside it, because all three are intervals;
- `TrajectoriesArePointwise`: the transitions of a trajectory, in the order they
  are given, lead every key through exactly the states of the window's points.
  Between two boundaries no extent begins or ends, so the state of a part of the
  window is the state of each of its points; at a boundary the transition's two
  sides are the states of the points before and at it;
- `EveryObservationIsAccounted`: what an answer retains it cites, repeats or
  reports as outside the selection. In a point or a window an untouched candidate
  has its gap (`OutsideHasGap`) and a touching one is in its key's group, which is
  settled or contested (`MaterialIsReported`). In a trajectory the least part of
  the window in which the key settles on the candidate's value either follows a
  boundary that shows it, or is the first, and then the key had the value before
  (`SomePartitionSettles`, `BeforeABoundary`, `SettledIsShown`);
- `ResultsStayValid`: the validation of a result, which computes gaps, order and
  shape again from other inputs, never refuses what the projection built
  (`ExecuteIsValid`, with one lemma for the gaps, the trend, the trajectory and
  the causal links).

The invariant is `QueryInv`: an answer is what `Execute` makes of the store, and
the store (`StoreInv`) is a finite set of observations told apart by their
identifiers. Alone, none of the properties says where an answer came from. The
order of a result is the one fact about sequences in these proofs. `Chronological`
puts each item at the place that counts the items before it, so that being sorted
and losing no item follow from the cardinality of finite sets, without induction
over a sequence. Where a least instant is needed, it comes from the well-founded
order of the naturals. The assumptions are what the constructors and the request's
validation ensure: `RowsAssumption` and `RequestsAssumption` (an extent and a
window end after they start) and `LimitsAssumption` (limits are positive).

`MigrationProofs` proves, for any number of processes and builds, any
manifests and any interruptions:

- `MigratorKeepsOneLog`: the commands implement `MigrationLog`;
- `CompleteScopesAreGranted` (and `LogGrantsAll`, the same of the log alone);
- `CommandsAnswerTruly` and `MigrationTypeCorrect`.

The invariant `MigrationInv` says of the database that every recorded
migration has created its objects and every ledger's rows come from some build
(`LedgersOfRows`, `RowsAreCreated`), of the container that no session outlives
it (`ServerOK`), and of each process what it may rely on at its step
(`Knows`): which scopes it has ensured, loaded and completed under the lock,
and, after a reset has erased a volume, that the one in use is another
(`Replaced`).
Only the holder of the lock writes a ledger, and everything that takes the lock
away from it (a dead session, a removed container) moves it to an earlier
knowledge too. The assumptions are `ManifestsAreLists`, `NullAssumption`,
`GrantsReachable` (a manifest grants on what it creates) and `GrantsGrow` (a
change of grants comes with a migration): without the last two, which the
repository's manifests keep and no code checks, a complete scope can lack a
privilege for ever.

Assumptions used are the named `ASSUME`s of the modules, and the
bound on the skew in `OneModelCallPerDerivation`. Every invariant, action
property and refinement that a passing run checks is stated by a theorem. The
four liveness properties (`EventuallyExtracted` and `EventuallyCurrent`: a sync
settles; `EventuallyAnswered`: an append is answered; `EventuallyIdle`: a review
transaction ends) are checked by TLC only, because liveness under fairness and
`ENABLED` are beyond the provers.

## 5. What is not modelled

See the components of `PROJECT.json`. Extraction validation grounds model
output in submitted text; model clients, Drive, OAuth, HTTP, configuration,
the CLI, the doctor and telemetry are sequential I/O without domain state, and
their failures are the failure steps of the modules above. The contents of a
write set and the normalisation of a query proposal are pure functions of data
that are not modelled yet. Rendering, identifiers and digests of query results
and the grouping of cited evidence into documents are left out: no property
here is about them.

## 6. The plan

Done: `Lease`, `Ingest` over it, `Publication`, `Authority` and `AuthorityTx`,
`Review` over `Authority`, `TemporalSnapshot`, `TemporalState`,
`TemporalQuery`, `Manifest`, `MigrationLog` and `Migration`.

1. `Freshness` of directory lookups (attempts, retry times), over `Review`.
2. `WriteSet`: resolution of references and ownership, as operators.
3. `QueryPlan`: normalisation of a proposal into a typed query.

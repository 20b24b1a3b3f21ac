------------------------------- MODULE Ingest -------------------------------
(***************************************************************************)
(* Concurrent syncs of internal/ingest over the lease protocol of Lease.   *)
(*                                                                         *)
(* A worker is one sync process taking one document through               *)
(* processDocument: it lists the folder, fetches the body, claims the      *)
(* derivation, calls the model, and commits the write set or records a     *)
(* failure.  Each repository call is one database transaction and one      *)
(* step; the provider, the other workers and time move between them.       *)
(* Every process reads its own clock, which may run ahead of real time by  *)
(* a fixed skew.                                                           *)
(***************************************************************************)
EXTENDS Lease, FiniteSets

CONSTANTS
  Worker,          \* sync processes
  Document,        \* documents of the configured folder
  MaxRevision,     \* bound: provider revisions a document goes through
  Config,          \* derivation configurations (provider, model, prompt, ...)
  Configured,      \* [Worker -> Config]
  DataMode,        \* [Worker -> Mode]
  Skew,            \* [Worker -> Nat]: how far a process's clock runs ahead
  AttemptTimeout,  \* Service.AttemptTimeout
  MaxClock,        \* bound: real time
  MaxFaults,       \* bound: failures not forced by a clock or a lost lease
  MaxFaultClock,   \* bound: real time of the last such failure
  MaxClaims        \* bound: attempts one worker claims

Revision == 1..MaxRevision

\* The content digest covers the listed provider version and the fetched
\* body, which come from two provider calls and may disagree.
Version == {v \in [document : Document, listed : Revision, body : Revision] :
              v.listed <= v.body}

RunOf(v, c) == <<v, c>>
VersionOf(r) == r[1]
DocumentOf(v) == v.document

ASSUME RunAssumption     == Run = Version \X Config
ASSUME AttemptAssumption == AttemptId = Worker \X (1..MaxClaims) /\ Digest = AttemptId
ASSUME ConfigAssumption  == Configured \in [Worker -> Config] /\ DataMode \in [Worker -> Mode]
ASSUME TimeoutAssumption == AttemptTimeout \in 1..(LeaseDuration - 1)
ASSUME BoundAssumption   == /\ MaxRevision \in Nat \ {0}
                            /\ {MaxClock, MaxFaultClock, MaxClaims, MaxFaults} \subseteq Nat
ASSUME SkewAssumption    == /\ Skew \in [Worker -> Nat]
                            /\ \A w \in Worker, c \in 0..MaxClock : c + Skew[w] \in Time

VARIABLES
  clock,     \* real time
  faults,    \* failures so far
  revision,  \* the provider's revision of each document
  recorded,  \* document_versions.recorded_at of each stored version
  current,   \* source_documents.current_version_id
  worker     \* the processes' local state

stored == <<runs, attempts, recorded, current>>

vars == <<runs, attempts, clock, faults, revision, recorded, current, worker>>

\* What the worker's last document promised its operator.  A document that
\* is busy, or whose failure was not recorded, promises nothing.
Outcome == {"none", "completed", "unchanged", "failed"}

WorkerState ==
  [pc : {"idle", "listed", "fetched", "claimed", "generating", "completing", "failing"},
   version : Version \cup {Null},
   id : AttemptId \cup {Null},          \* VersionState.AttemptID and LeaseOwner
   leaseExpiresAt : Nat \cup {Null},    \* VersionState.LeaseExpiresAt
   deadline : Int \cup {Null},          \* of attemptCtx
   stamp : Time \cup {Null},            \* the last service.now() still in use
   outcome : Outcome]

Idle == [pc |-> "idle", version |-> Null, id |-> Null, leaseExpiresAt |-> Null,
         deadline |-> Null, stamp |-> Null, outcome |-> "none"]

Now(w) == clock + Skew[w]

\* LeaseDuration - AttemptTimeout, kept free to record a failure.
CleanupMargin == LeaseDuration - AttemptTimeout

\* The run the worker is processing.
Working(w) == RunOf(worker[w].version, Configured[w])

\* uuid.NewString
FreshId(w) == <<w, 1 + Cardinality({id \in UsedIds : id[1] = w})>>

Init ==
  /\ LeaseInit
  /\ clock = 0
  /\ faults = 0
  /\ revision = [d \in Document |-> 1]
  /\ recorded = [v \in Version |-> Null]
  /\ current = [d \in Document |-> Null]
  /\ worker = [w \in Worker |-> Idle]

-----------------------------------------------------------------------------
(* The environment.                                                        *)

Tick ==
  /\ clock < MaxClock
  /\ clock' = clock + 1
  /\ UNCHANGED <<stored, faults, revision, worker>>

\* Drive's version counter only grows.
Edit(d) ==
  /\ revision[d] < MaxRevision
  /\ revision' = [revision EXCEPT ![d] = @ + 1]
  /\ UNCHANGED <<stored, clock, faults, worker>>

\* Something outside the protocol goes wrong.
Fault ==
  /\ faults < MaxFaults
  /\ clock <= MaxFaultClock
  /\ faults' = faults + 1

\* A call fails because it must, or because of a fault.
FailsBecause(forced) == Fault \/ (forced /\ UNCHANGED faults)

-----------------------------------------------------------------------------
(* One document of one sync.                                               *)

\* The document's result, kept until the next document.
Finish(w, outcome) ==
  worker' = [worker EXCEPT ![w] = [Idle EXCEPT !.version = worker[w].version,
                                               !.id = worker[w].id,
                                               !.outcome = outcome]]

\* A result that tells nothing about the database: busy, a source or storage
\* error before the claim, ErrFailurePersistence.
ReturnUnsettled(w) == worker' = [worker EXCEPT ![w] = Idle]

\* fail() has read service.now() and not yet called RecordFailure.
BeginFailure(w) ==
  worker' = [worker EXCEPT ![w].pc = "failing", ![w].stamp = Now(w)]

\* Source.List: the metadata of the provider's snapshot.
List(w, d) ==
  /\ worker[w].pc = "idle"
  /\ worker' = [worker EXCEPT ![w] =
       [Idle EXCEPT !.pc = "listed",
                    !.version = [document |-> d, listed |-> revision[d],
                                 body |-> revision[d]]]]
  /\ UNCHANGED <<stored, clock, faults, revision>>

\* Mutant: the merge keeps the listed body under the fetched version.
GetMergedBackwards(w) ==
  /\ worker[w].pc = "listed"
  /\ worker' = [worker EXCEPT ![w].pc = "fetched", ![w].stamp = Now(w),
                              ![w].version.listed = revision[worker[w].version.document]]
  /\ UNCHANGED <<stored, clock, faults, revision>>

\* Source.Get and mergeSourceDocument: the body as it is now under the
\* listed version.  NewDocumentVersion and PrepareVersion read the clock.
Get(w) ==
  /\ worker[w].pc = "listed"
  /\ worker' = [worker EXCEPT ![w].pc = "fetched", ![w].stamp = Now(w),
                              ![w].version.body = revision[worker[w].version.document]]
  /\ UNCHANGED <<stored, clock, faults, revision>>

GetFails(w) ==
  /\ worker[w].pc = "listed"
  /\ Fault
  /\ ReturnUnsettled(w)
  /\ UNCHANGED <<stored, clock, revision>>

\* PutDocumentVersion keeps the recorded time of the first insert; the
\* source-revision observation and the run carry that same time.
PutRecordedAt(w) ==
  LET v == worker[w].version
  IN  IF recorded[v] = Null THEN worker[w].stamp ELSE recorded[v]

FindsBusy(w) ==
  AnswersBusy(Working(w), DataMode[w], PutRecordedAt(w), FreshId(w), worker[w].stamp)

FindsCompleted(w) == AnswersCompleted(Working(w), PutRecordedAt(w))

PrepareClaims(w) ==
  /\ worker[w].pc = "fetched"
  /\ FreshId(w) \in AttemptId
  /\ Claim(Working(w), DataMode[w], PutRecordedAt(w), FreshId(w), worker[w].stamp)
  /\ recorded' = [recorded EXCEPT ![worker[w].version] = PutRecordedAt(w)]
  /\ worker' = [worker EXCEPT ![w].pc = "claimed", ![w].id = FreshId(w),
                              ![w].leaseExpiresAt = worker[w].stamp + LeaseDuration,
                              ![w].stamp = Null]
  /\ UNCHANGED <<clock, faults, revision, current>>

PrepareBusy(w) ==
  /\ worker[w].pc = "fetched"
  /\ FindsBusy(w)
  /\ ReturnUnsettled(w)
  /\ UNCHANGED <<stored, clock, faults, revision>>

PrepareUnchanged(w) ==
  /\ worker[w].pc = "fetched"
  /\ FindsCompleted(w)
  /\ Finish(w, "unchanged")
  /\ UNCHANGED <<stored, clock, faults, revision>>

\* ErrConflict, or another error: the whole transaction rolls back.
PrepareFails(w) ==
  /\ worker[w].pc = "fetched"
  /\ FailsBecause(~FindsBusy(w) /\ ~FindsCompleted(w)
                    /\ ~AnswersClaimed(Working(w), DataMode[w], PutRecordedAt(w),
                                       FreshId(w), worker[w].stamp))
  /\ ReturnUnsettled(w)
  /\ UNCHANGED <<stored, clock, revision>>

\* Mutant: the deadline ignores the time the claim took.
DeadlineFromNow(w) == Now(w) + AttemptTimeout

Deadline(w) ==
  LET byTimeout == Now(w) + AttemptTimeout
      byLease   == worker[w].leaseExpiresAt - CleanupMargin
  IN  IF byLease < byTimeout THEN byLease ELSE byTimeout

\* attemptContext leaves a window: the model is called.
StartAttempt(w) ==
  /\ worker[w].pc = "claimed"
  /\ Deadline(w) > Now(w)
  /\ worker' = [worker EXCEPT ![w].pc = "generating", ![w].deadline = Deadline(w)]
  /\ UNCHANGED <<stored, clock, faults, revision>>

\* The claim was too slow, or the extraction request is invalid.
StartFails(w) ==
  /\ worker[w].pc = "claimed"
  /\ FailsBecause(Deadline(w) <= Now(w))
  /\ BeginFailure(w)
  /\ UNCHANGED <<stored, clock, revision>>

\* Valid output and identity snapshots arrived before the deadline.  Time
\* may have passed when completion() reads the clock for CompletedAt.
GenerateSucceeds(w) ==
  /\ worker[w].pc = "generating"
  /\ worker' = [worker EXCEPT ![w].pc = "completing", ![w].stamp = Now(w)]
  /\ UNCHANGED <<stored, clock, faults, revision>>

\* The deadline, or a model, authentication, validation or snapshot error.
GenerateFails(w) ==
  /\ worker[w].pc = "generating"
  /\ FailsBecause(Now(w) >= worker[w].deadline)
  /\ BeginFailure(w)
  /\ UNCHANGED <<stored, clock, revision>>

\* Mutant: the pointer is left alone.
CommitVersionUnpointed(w) ==
  /\ worker[w].pc = "completing"
  /\ worker[w].stamp < worker[w].deadline
  /\ Complete(Working(w), worker[w].id, worker[w].stamp, worker[w].id)
  /\ UNCHANGED <<clock, revision, recorded, current>>

\* The completion transaction: lease check, write set, pointer, completion.
\* It begins after CompletedAt was read, under a context still alive.
CommitVersion(w) ==
  /\ worker[w].pc = "completing"
  /\ worker[w].stamp < worker[w].deadline
  /\ Complete(Working(w), worker[w].id, worker[w].stamp, worker[w].id)
  /\ current' = [current EXCEPT ![DocumentOf(worker[w].version)] = worker[w].version]
  /\ UNCHANGED <<clock, revision, recorded>>

\* The commit is acknowledged while the attempt context is alive.
CompleteVersion(w) ==
  /\ CommitVersion(w)
  /\ Now(w) < worker[w].deadline
  /\ Finish(w, "completed")
  /\ UNCHANGED faults

\* The commit is applied, possibly after the deadline, but the client sees
\* an error (lost connection, expired context) and goes on to fail().
CompleteVersionUnacknowledged(w) ==
  /\ CommitVersion(w)
  /\ BeginFailure(w)
  /\ Fault

\* Mutant: the pointer was moved outside the transaction.
CompleteVersionFailsHalfway(w) ==
  /\ worker[w].pc = "completing"
  /\ FailsBecause(\/ Now(w) >= worker[w].deadline
                  \/ ~ActivelyOwned(Working(w), worker[w].id, worker[w].stamp))
  /\ BeginFailure(w)
  /\ current' = [current EXCEPT ![DocumentOf(worker[w].version)] = worker[w].version]
  /\ UNCHANGED <<runs, attempts, recorded, clock, revision>>

\* A write, a stage or the lease check fails and everything rolls back.
CompleteVersionFails(w) ==
  /\ worker[w].pc = "completing"
  /\ FailsBecause(\/ Now(w) >= worker[w].deadline
                  \/ ~ActivelyOwned(Working(w), worker[w].id, worker[w].stamp))
  /\ BeginFailure(w)
  /\ UNCHANGED <<stored, clock, revision>>

\* Mutant: an update that matches no row counts as a success.
CommitFailureUnowned(w) ==
  /\ worker[w].pc = "failing"
  /\ \/ \E code \in FailureCode : Fail(Working(w), worker[w].id, worker[w].stamp, code)
     \/ /\ ~ActivelyOwned(Working(w), worker[w].id, worker[w].stamp)
        /\ UNCHANGED leaseVars
  /\ UNCHANGED <<recorded, current, clock, revision>>

CommitFailure(w) ==
  /\ worker[w].pc = "failing"
  /\ \E code \in FailureCode : Fail(Working(w), worker[w].id, worker[w].stamp, code)
  /\ UNCHANGED <<recorded, current, clock, revision>>

RecordFailure(w) ==
  /\ CommitFailure(w)
  /\ Finish(w, "failed")
  /\ UNCHANGED faults

RecordFailureUnacknowledged(w) ==
  /\ CommitFailure(w)
  /\ ReturnUnsettled(w)
  /\ Fault

\* ErrFailurePersistence: the lease is gone, or the database is unavailable.
RecordFailureFails(w) ==
  /\ worker[w].pc = "failing"
  /\ FailsBecause(~ActivelyOwned(Working(w), worker[w].id, worker[w].stamp))
  /\ ReturnUnsettled(w)
  /\ UNCHANGED <<stored, clock, revision>>

\* A crash, or a cancellation of the sync: nothing is recorded and an
\* active attempt stays active until another claim finds it expired.
Abandon(w) ==
  /\ worker[w].pc # "idle"
  /\ ReturnUnsettled(w)
  /\ Fault
  /\ UNCHANGED <<stored, clock, revision>>

-----------------------------------------------------------------------------
Proceed(w) ==
  \/ \E d \in Document : List(w, d)
  \/ Get(w) \/ GetFails(w)
  \/ PrepareClaims(w) \/ PrepareBusy(w) \/ PrepareUnchanged(w) \/ PrepareFails(w)
  \/ StartAttempt(w) \/ StartFails(w)
  \/ GenerateSucceeds(w) \/ GenerateFails(w)
  \/ CompleteVersion(w) \/ CompleteVersionUnacknowledged(w) \/ CompleteVersionFails(w)
  \/ RecordFailure(w) \/ RecordFailureUnacknowledged(w) \/ RecordFailureFails(w)

Next ==
  \/ Tick
  \/ \E d \in Document : Edit(d)
  \/ \E w \in Worker : Proceed(w) \/ Abandon(w)

Spec == Init /\ [][Next]_vars

\* Time passes and a process that is not killed runs its next statement.
FairSpec == Spec /\ WF_vars(Tick) /\ \A w \in Worker : WF_vars(Proceed(w))

-----------------------------------------------------------------------------
TypeOK ==
  /\ LeaseTypeOK
  /\ clock \in 0..MaxClock
  /\ faults \in 0..MaxFaults
  /\ revision \in [Document -> Revision]
  /\ recorded \in [Version -> Time \cup {Null}]
  /\ current \in [Document -> Version \cup {Null}]
  /\ worker \in [Worker -> WorkerState]

Completed(r) == runs[r].state = "completed"

\* The attempt worker w was given, as the database now sees it.
OwnRow(w) ==
  LET history == attempts[Working(w)]
  IN  CHOOSE a \in {history[i] : i \in DOMAIN history} : a.id = worker[w].id

\* The model-and-persistence attempt of w is still running: its context
\* has not reached its deadline on the process's own clock.
InAttempt(w) ==
  worker[w].pc \in {"generating", "completing"} /\ Now(w) < worker[w].deadline

\* README.md:742: the attempt is canceled with a margin before the claim
\* expires, so that another sync cannot begin duplicate model work on the
\* derivation.  Two live attempts of a run never overlap, although leases
\* are reclaimed by the clock of whoever asks.
NoDuplicateModelWork ==
  \A w1, w2 \in Worker :
    w1 # w2 /\ InAttempt(w1) /\ InAttempt(w2) => Working(w1) # Working(w2)

\* What a sync reports is what the database holds: completed only for the
\* write set of its own attempt, unchanged only over a completed run, and
\* failed only when its own attempt is stored as failed.
OutcomeIsDurable ==
  \A w \in Worker :
    /\ worker[w].outcome = "completed" =>
         Completed(Working(w)) /\ runs[Working(w)].digest = worker[w].id
    /\ worker[w].outcome = "unchanged" => Completed(Working(w))
    /\ worker[w].outcome = "failed" => OwnRow(w).state = "failed"

\* The pointer names a version of the same document whose extraction has
\* been committed under some configuration.
CurrentIsExtracted ==
  \A d \in Document :
    current[d] # Null => /\ DocumentOf(current[d]) = d
                         /\ \E c \in Config : Completed(RunOf(current[d], c))

\* Ingest implements the abstract publication of write sets.
Published == INSTANCE Publication
  WITH Result <- AttemptId,
       published <- [r \in Run |-> runs[r].digest]

PublishesOnce == Published!Spec

\* And its transactions are steps of the lease protocol.
FollowsLease == LeaseSpec

\* README.md:763: re-observing an already completed version reuses its
\* extraction without another model call and can make that version current
\* again.
ReobservedBecomesCurrent ==
  [][\A w \in Worker :
       PrepareUnchanged(w) =>
         current'[DocumentOf(worker[w].version)] = worker[w].version]_vars

\* Once a body stops changing, some extraction of it is committed, whatever
\* crashed, timed out, lost its lease or was interrupted on the way.
BodyExtracted(d, n) ==
  \E r \in Run : DocumentOf(VersionOf(r)) = d /\ VersionOf(r).body = n /\ Completed(r)

EventuallyExtracted ==
  \A d \in Document, n \in Revision :
    revision[d] = n ~> BodyExtracted(d, n) \/ revision[d] > n

\* With one process the pointer settles on the newest revision.
EventuallyCurrent ==
  \A d \in Document, n \in Revision :
    revision[d] = n ~> \/ current[d] # Null /\ current[d].listed = n
                       \/ revision[d] > n

=============================================================================

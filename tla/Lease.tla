------------------------------- MODULE Lease -------------------------------
(***************************************************************************)
(* The extraction lease protocol of adapters/postgres/extraction.go: one   *)
(* run row per immutable derivation, an append-only history of attempts    *)
(* per run, and the three transactions that move them.  Every transaction  *)
(* locks the run row and its latest attempt (SELECT ... FOR UPDATE) before *)
(* it reads and holds both locks until it commits, so each is one step.    *)
(*                                                                         *)
(* The callers' clocks are not trusted: every time a transaction compares  *)
(* or stores was read by the caller before the transaction began, so here  *)
(* it is an arbitrary member of Time.                                      *)
(***************************************************************************)
EXTENDS Integers, Sequences

CONSTANTS
  Run,            \* run IDs; each stands for one derivation digest
  AttemptId,      \* (attempt ID, lease owner) pairs a caller can supply
  Mode,           \* data modes: the provenance the run ID does not determine
  FailureCode,    \* ingest.FailureCode
  Digest,         \* canonical write-set digests
  Time,           \* canonical instants
  LeaseDuration,  \* LeaseRequest.LeaseDuration
  Null            \* SQL NULL

ASSUME TimeAssumption     == Time \subseteq Nat
ASSUME LeaseAssumption    == LeaseDuration \in Nat \ {0}
ASSUME NullAssumption     == Null \notin Nat \cup Mode \cup Digest \cup FailureCode

VARIABLES
  runs,      \* stacks_core.extraction_runs
  attempts   \* stacks_core.extraction_attempts, in attempt_number order

leaseVars == <<runs, attempts>>

RunRow == [state : {"absent", "active", "failed", "completed"},
           mode : Mode \cup {Null}, recordedAt : Time \cup {Null},
           completedAt : Time \cup {Null}, digest : Digest \cup {Null}]

AttemptRow == [id : AttemptId, claimedAt : Time, leaseExpiresAt : Nat,
               state : {"active", "completed", "failed", "expired"},
               terminalAt : Nat \cup {Null}, failureCode : FailureCode \cup {Null}]

AbsentRun == [state |-> "absent", mode |-> Null, recordedAt |-> Null,
              completedAt |-> Null, digest |-> Null]

LeaseInit ==
  /\ runs = [r \in Run |-> AbsentRun]
  /\ attempts = [r \in Run |-> <<>>]

-----------------------------------------------------------------------------
(* What the transactions read.                                             *)

Latest(r) == attempts[r][Len(attempts[r])]

\* Primary key extraction_attempts.id.
UsedIds == UNION {{attempts[r][i].id : i \in DOMAIN attempts[r]} : r \in Run}

\* The attempt a claim would insert.
NewAttempt(id, c) ==
  [id |-> id, claimedAt |-> c, leaseExpiresAt |-> c + LeaseDuration,
   state |-> "active", terminalAt |-> Null, failureCode |-> Null]

SameRunInput(r, m, t) == runs[r].mode = m /\ runs[r].recordedAt = t

\* The active attempt the caller supplied itself, in an earlier call.
SameLeaseAttempt(r, id, c) ==
  /\ Latest(r).state = "active"
  /\ Latest(r).id = id
  /\ Latest(r).claimedAt = c

\* Mutant: the row is matched by name alone.
OwnedByName(r, id, t) ==
  /\ Latest(r).id = id
  /\ Latest(r).claimedAt <= t
  /\ t < Latest(r).leaseExpiresAt

\* Mutant: the end of the lease is not checked.
OwnedForever(r, id, t) ==
  /\ runs[r].state = "active"
  /\ Latest(r).state = "active"
  /\ Latest(r).id = id
  /\ Latest(r).claimedAt <= t

\* The caller owns the live attempt and its time falls inside the lease.
ActivelyOwned(r, id, t) ==
  /\ runs[r].state = "active"
  /\ Latest(r).state = "active"
  /\ Latest(r).id = id
  /\ Latest(r).claimedAt <= t
  /\ t < Latest(r).leaseExpiresAt

-----------------------------------------------------------------------------
(* PrepareExtraction.  m and t are the data mode and the recorded time of  *)
(* the supplied run, id and c the attempt and the claim time of the lease. *)
(* When none of the four answers below holds the call returns ErrConflict  *)
(* and the caller's transaction rolls back.                                *)

\* A completed run answers whatever the data mode of the caller.
AnswersCompleted(r, t) ==
  /\ runs[r].state = "completed"
  /\ runs[r].recordedAt = t

AnswersResumed(r, m, t, id, c) ==
  /\ runs[r].state \in {"active", "failed"}
  /\ SameRunInput(r, m, t)
  /\ SameLeaseAttempt(r, id, c)

AnswersBusy(r, m, t, id, c) ==
  /\ runs[r].state \in {"active", "failed"}
  /\ SameRunInput(r, m, t)
  /\ Latest(r).state = "active"
  /\ ~SameLeaseAttempt(r, id, c)
  /\ c < Latest(r).leaseExpiresAt

\* Mutant: a failed attempt is reclaimed at any time, even before its end.
ReclaimableEarly(r, id, c) ==
  \/ /\ Latest(r).state = "active"
     /\ ~SameLeaseAttempt(r, id, c)
     /\ c >= Latest(r).leaseExpiresAt
  \/ Latest(r).state \in {"failed", "expired"}

\* Mutant: a failed attempt is never retried.
ReclaimableOnceExpired(r, id, c) ==
  /\ Latest(r).state = "active"
  /\ ~SameLeaseAttempt(r, id, c)
  /\ c >= Latest(r).leaseExpiresAt

\* The latest attempt no longer holds the derivation at the claim time.
Reclaimable(r, id, c) ==
  \/ /\ Latest(r).state = "active"
     /\ ~SameLeaseAttempt(r, id, c)
     /\ c >= Latest(r).leaseExpiresAt
  \/ /\ Latest(r).state \in {"failed", "expired"}
     /\ c >= Latest(r).terminalAt

AnswersClaimed(r, m, t, id, c) ==
  /\ \/ runs[r].state = "absent"
     \/ /\ runs[r].state \in {"active", "failed"}
        /\ SameRunInput(r, m, t)
        /\ Reclaimable(r, id, c)
  /\ c >= t
  /\ id \notin UsedIds

\* Mutants: another terminal state of the table; every attempt expires again.
ExpiredAsCanceled(a) == IF a.state = "active" THEN [a EXCEPT !.state = "canceled"] ELSE a

ExpiredAgain(a) == [a EXCEPT !.state = "expired", !.terminalAt = a.leaseExpiresAt]

\* UPDATE ... SET state = 'expired', terminal_at = lease_expires_at
Expired(a) ==
  IF a.state = "active"
  THEN [a EXCEPT !.state = "expired", !.terminalAt = a.leaseExpiresAt]
  ELSE a

Expire(history) == [i \in DOMAIN history |-> Expired(history[i])]

Claim(r, m, t, id, c) ==
  /\ AnswersClaimed(r, m, t, id, c)
  /\ attempts' = [attempts EXCEPT ![r] = Append(Expire(attempts[r]), NewAttempt(id, c))]
  /\ runs' = [runs EXCEPT ![r].state = "active", ![r].mode = m, ![r].recordedAt = t]

-----------------------------------------------------------------------------
(* The terminal transitions of an attempt.                                 *)

\* Mutant: the terminal time is not the caller's.
FinishedAtExpiry(a, state, t, code) ==
  [a EXCEPT !.state = state, !.terminalAt = a.leaseExpiresAt - 1, !.failureCode = code]

\* UPDATE extraction_attempts SET state, terminal_at, failure_code
Finished(a, state, t, code) ==
  [a EXCEPT !.state = state, !.terminalAt = t, !.failureCode = code]

FinishLatest(r, state, t, code) ==
  attempts' = [attempts EXCEPT ![r][Len(attempts[r])] =
                 Finished(Latest(r), state, t, code)]

\* An exact retry of a stored failure: the call succeeds and writes nothing.
FailureRecorded(r, id, t, code) ==
  /\ runs[r].state = "failed"
  /\ Latest(r).state = "failed"
  /\ Latest(r).id = id
  /\ Latest(r).terminalAt = t
  /\ Latest(r).failureCode = code

\* Mutant: the run row is forgotten.
FailAttemptOnly(r, id, t, code) ==
  /\ ActivelyOwned(r, id, t)
  /\ FinishLatest(r, "failed", t, code)
  /\ UNCHANGED runs

Fail(r, id, t, code) ==
  /\ ActivelyOwned(r, id, t)
  /\ FinishLatest(r, "failed", t, code)
  /\ runs' = [runs EXCEPT ![r].state = "failed"]

\* exactExtractionCompletion: a retry of the stored completion is a no-op.
CompletionRecorded(r, id, t, digest) ==
  /\ runs[r].state = "completed"
  /\ runs[r].completedAt = t
  /\ runs[r].digest = digest
  /\ Latest(r).state = "completed"
  /\ Latest(r).id = id
  /\ Latest(r).terminalAt = t

\* CheckExtractionCompletion and CompleteExtraction run in one transaction
\* with the same input; the payload between them reads no lease state.
Complete(r, id, t, digest) ==
  /\ ActivelyOwned(r, id, t)
  /\ FinishLatest(r, "completed", t, Null)
  /\ runs' = [runs EXCEPT ![r].state = "completed", ![r].completedAt = t,
                          ![r].digest = digest]

-----------------------------------------------------------------------------
LeaseNext ==
  \E r \in Run, id \in AttemptId, t \in Time :
    \/ \E m \in Mode, recorded \in Time : Claim(r, m, recorded, id, t)
    \/ \E code \in FailureCode : Fail(r, id, t, code)
    \/ \E digest \in Digest : Complete(r, id, t, digest)

LeaseSpec == LeaseInit /\ [][LeaseNext]_leaseVars

-----------------------------------------------------------------------------
LeaseTypeOK ==
  /\ runs \in [Run -> RunRow]
  /\ attempts \in [Run -> Seq(AttemptRow)]

\* The run row and its latest attempt tell the same story; a completed run
\* and its completed attempt carry the same time (completedExtractionState
\* refuses anything else).  PrepareExtraction, RecordExtractionFailure and
\* CompleteExtraction each write the two rows in separate statements.
RunAgreesWithLatest ==
  \A r \in Run :
    /\ runs[r].state = "absent" <=> attempts[r] = <<>>
    /\ runs[r].state # "absent" => Latest(r).state = runs[r].state
    /\ runs[r].state = "completed" =>
         runs[r].completedAt = Latest(r).terminalAt /\ runs[r].digest \in Digest
    /\ runs[r].state # "completed" => runs[r].completedAt = Null /\ runs[r].digest = Null

\* Index extraction_attempts_one_active, and more: every attempt but the
\* latest has failed or expired, so none can still publish.
OnlyLatestIsLive ==
  \A r \in Run : \A i \in DOMAIN attempts[r] :
    i < Len(attempts[r]) => attempts[r][i].state \in {"failed", "expired"}

\* The intervals in which the attempts of a run held it do not overlap and
\* follow attempt_number, whatever clocks the callers read.
LeasesDisjoint ==
  \A r \in Run : \A i, j \in DOMAIN attempts[r] :
    i < j => attempts[r][i].terminalAt <= attempts[r][j].claimedAt

\* An attempt ends strictly inside its lease, or exactly at the end of it
\* when it is taken over; the table's terminal_order_check admits every such
\* row, so the constraint never turns a legal call into an error.
TerminalInsideLease ==
  \A r \in Run : \A i \in DOMAIN attempts[r] :
    LET a == attempts[r][i] IN
      /\ runs[r].recordedAt <= a.claimedAt
      /\ a.claimedAt < a.leaseExpiresAt
      /\ a.state = "active" <=> a.terminalAt = Null
      /\ a.state \in {"completed", "failed"} =>
           a.claimedAt <= a.terminalAt /\ a.terminalAt < a.leaseExpiresAt
      /\ a.state = "expired" => a.terminalAt = a.leaseExpiresAt

\* History is append-only: a step never removes an attempt nor touches one
\* that has ended, and a completed run never changes again (an exact retry,
\* a late failure and a new claim all leave it as it is).
HistoryIsImmutable ==
  [][\A r \in Run :
       /\ Len(attempts[r]) <= Len(attempts'[r])
       /\ \A i \in DOMAIN attempts[r] :
            attempts[r][i].state # "active" => attempts'[r][i] = attempts[r][i]
       /\ runs[r].state = "completed" => runs'[r] = runs[r] /\ attempts'[r] = attempts[r]
    ]_leaseVars

\* A caller that lost the acknowledgement of its transaction can call again
\* with the same input: the claim is answered as its own, the failure and
\* the completion as already recorded, and none is a conflict.
LostAnswersAreRepeatable ==
  [][\A r \in Run, id \in AttemptId, t \in Time :
       /\ \A m \in Mode, recorded \in Time :
            Claim(r, m, recorded, id, t) => AnswersResumed(r, m, recorded, id, t)'
       /\ \A code \in FailureCode : Fail(r, id, t, code) => FailureRecorded(r, id, t, code)'
       /\ \A digest \in Digest :
            Complete(r, id, t, digest) => CompletionRecorded(r, id, t, digest)'
    ]_leaseVars

=============================================================================

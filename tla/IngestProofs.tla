---------------------------- MODULE IngestProofs ---------------------------
(***************************************************************************)
(* Ingest for every number of workers, documents, revisions, attempts and  *)
(* every clock skew: its steps are steps of the lease protocol, it         *)
(* publishes what Publication promises, and two processes whose clocks     *)
(* differ by no more than the cleanup margin never have live attempts of   *)
(* one derivation at the same time.                                        *)
(***************************************************************************)
EXTENDS Ingest, LeaseProofs

-----------------------------------------------------------------------------
(* The inductive invariant.                                                *)

\* The attempt row of a worker that is still attempting: nobody but the
\* worker itself can end it otherwise than by expiry, because terminal
\* transitions name the attempt by its ID and its lease owner.
Held(w, x) ==
  \E i \in DOMAIN attempts[RunOf(x.version, Configured[w])] :
    LET a == attempts[RunOf(x.version, Configured[w])][i] IN
      /\ a.id = x.id
      /\ a.leaseExpiresAt = x.leaseExpiresAt
      /\ a.claimedAt <= clock + Skew[w]
      /\ a.state \in {"active", "expired"}

WorkerInv(w, x) ==
  /\ x.pc # "idle" => x.version \in Version
  /\ x.pc = "listed" => x.version.listed <= revision[x.version.document]
  /\ x.pc \in {"fetched", "completing", "failing"} => x.stamp \in Time
  /\ x.pc = "fetched" => x.stamp <= clock + Skew[w]
  /\ x.pc \in {"claimed", "generating", "completing", "failing"} =>
       x.id \in AttemptId /\ x.id[1] = w
  /\ x.pc \in {"claimed", "generating", "completing"} =>
       x.leaseExpiresAt \in Nat /\ Held(w, x)
  /\ x.pc \in {"generating", "completing"} =>
       x.deadline \in Int /\ x.deadline <= x.leaseExpiresAt - CleanupMargin

IngestInv ==
  /\ LeaseInv
  /\ TypeOK
  /\ \A w \in Worker : WorkerInv(w, worker[w])

LEMMA IngestInitInv == Init => IngestInv
  <1> SUFFICES ASSUME Init PROVE IngestInv
    OBVIOUS
  <1>1. LeaseInv /\ LeaseTypeOK
    BY LeaseInitInv DEF Init, LeaseInv
  <1>2. Idle \in WorkerState
    BY DEF Idle, WorkerState, Outcome
  <1>3. TypeOK
    BY <1>1, <1>2, BoundAssumption DEF Init, TypeOK, Revision
  <1>4. \A w \in Worker : WorkerInv(w, worker[w])
    BY DEF Init, WorkerInv, Idle
  <1>5. QED
    BY <1>1, <1>3, <1>4 DEF IngestInv

-----------------------------------------------------------------------------
(* Steps that leave the database alone.                                    *)

LEMMA ClockReadings ==
  ASSUME TypeOK, NEW w \in Worker
  PROVE  Now(w) \in Time /\ Now(w) \in Nat /\ Now(w) = clock + Skew[w] /\ Skew[w] \in Nat
  BY SkewAssumption, TimeAssumption DEF TypeOK, Now

\* Worker w moves to the local state x.
LEMMA LocalStep ==
  ASSUME IngestInv, NEW w \in Worker, NEW x \in WorkerState, WorkerInv(w, x),
         worker' = [worker EXCEPT ![w] = x],
         UNCHANGED <<stored, clock, revision>>, faults' \in 0..MaxFaults
  PROVE  IngestInv'
  <1>1. LeaseInv' /\ TypeOK'
    BY DEF IngestInv, LeaseInv, LeaseTypeOK, TypeOK, stored
  <1>2. ASSUME NEW v \in Worker PROVE WorkerInv(v, worker[v])'
    <2>1. worker'[v] = IF v = w THEN x ELSE worker[v]
      BY DEF IngestInv, TypeOK
    <2>2. WorkerInv(v, worker'[v])
      BY <2>1 DEF IngestInv
    <2>3. QED
      BY <2>2 DEF WorkerInv, Held, stored
  <1>3. QED
    BY <1>1, <1>2 DEF IngestInv

LEMMA FaultCount ==
  ASSUME TypeOK, \/ Fault \/ UNCHANGED faults
  PROVE  faults' \in 0..MaxFaults
  BY BoundAssumption DEF TypeOK, Fault

\* The results a document can end with.
LEMMA Settled ==
  ASSUME IngestInv, NEW w \in Worker, NEW outcome \in Outcome,
         \/ Finish(w, outcome)
         \/ ReturnUnsettled(w)
  PROVE  \E x \in WorkerState : x.pc = "idle" /\ WorkerInv(w, x)
                                  /\ worker' = [worker EXCEPT ![w] = x]
  <1>1. worker[w] \in WorkerState
    BY DEF IngestInv, TypeOK
  <1>2. ASSUME NEW x \in WorkerState, x.pc = "idle" PROVE WorkerInv(w, x)
    BY <1>2 DEF WorkerInv
  <1>3. CASE Finish(w, outcome)
    <2> DEFINE x == [Idle EXCEPT !.version = worker[w].version, !.id = worker[w].id,
                                 !.outcome = outcome]
    <2>1. x \in WorkerState /\ x.pc = "idle"
      BY <1>1 DEF WorkerState, Idle
    <2>2. QED
      BY <1>2, <1>3, <2>1 DEF Finish
  <1>4. CASE ReturnUnsettled(w)
    <2>1. Idle \in WorkerState /\ Idle.pc = "idle"
      BY DEF WorkerState, Idle, Outcome
    <2>2. QED
      BY <1>2, <1>4, <2>1 DEF ReturnUnsettled
  <1>5. QED
    BY <1>3, <1>4

\* Entering fail().
LEMMA Failing ==
  ASSUME IngestInv, NEW w \in Worker, BeginFailure(w),
         worker[w].pc \in {"claimed", "generating", "completing"}
  PROVE  \E x \in WorkerState : x.pc = "failing" /\ WorkerInv(w, x)
                                  /\ worker' = [worker EXCEPT ![w] = x]
  <1> DEFINE x == [worker[w] EXCEPT !.pc = "failing", !.stamp = Now(w)]
  <1>1. worker[w] \in WorkerState /\ WorkerInv(w, worker[w]) /\ Now(w) \in Time
    BY ClockReadings DEF IngestInv, TypeOK
  <1>2. x \in WorkerState /\ x.pc = "failing"
    BY <1>1 DEF WorkerState
  <1>3. WorkerInv(w, x)
    BY <1>1 DEF WorkerInv, WorkerState
  <1>4. worker' = [worker EXCEPT ![w] = x]
    BY DEF BeginFailure
  <1>5. QED
    BY <1>2, <1>3, <1>4

LEMMA ReadSteps ==
  ASSUME IngestInv, NEW w \in Worker,
         \/ \E d \in Document : List(w, d)
         \/ Get(w)
  PROVE  IngestInv'
  <1>1. /\ worker[w] \in WorkerState /\ WorkerInv(w, worker[w])
        /\ Now(w) \in Time /\ Now(w) = clock + Skew[w] /\ Now(w) <= Now(w)
        /\ revision \in [Document -> Revision]
    BY ClockReadings DEF IngestInv, TypeOK
  <1>2. ASSUME NEW d \in Document, List(w, d) PROVE IngestInv'
    <2> DEFINE v == [document |-> d, listed |-> revision[d], body |-> revision[d]]
               x == [Idle EXCEPT !.pc = "listed", !.version = v]
    <2>1. v \in Version
      BY <1>1, BoundAssumption DEF Version, Revision
    <2>2. x \in WorkerState /\ x.pc = "listed" /\ x.version = v
      BY <2>1 DEF WorkerState, Idle, Outcome
    <2>3. v.listed <= revision[v.document]
      BY <1>1, BoundAssumption DEF Revision
    <2>4. worker' = [worker EXCEPT ![w] = x] /\ UNCHANGED <<stored, clock, faults, revision>>
      BY <1>2 DEF List
    <2> HIDE DEF v, x
    <2>5. WorkerInv(w, x)
      BY <2>1, <2>2, <2>3 DEF WorkerInv
    <2>6. QED
      BY <2>2, <2>4, <2>5, LocalStep, FaultCount DEF IngestInv
  <1>3. ASSUME Get(w) PROVE IngestInv'
    <2> DEFINE old == worker[w].version
               v == [old EXCEPT !.body = revision[old.document]]
               x == [worker[w] EXCEPT !.pc = "fetched", !.stamp = Now(w), !.version = v]
    <2>1. /\ old \in [document : Document, listed : Revision, body : Revision]
          /\ old.listed <= revision[old.document]
          /\ revision[old.document] \in Revision
      BY <1>1, <1>3 DEF Get, WorkerInv, Version
    <2>2. v \in Version
      BY <2>1 DEF Version
    <2>3. /\ x \in WorkerState
          /\ x.pc = "fetched" /\ x.version = v /\ x.stamp = Now(w)
      BY <1>1, <2>2 DEF WorkerState
    <2>4. worker' = [worker EXCEPT ![w] = x] /\ UNCHANGED <<stored, clock, faults, revision>>
      BY <1>3, <1>1 DEF Get, WorkerState
    <2> HIDE DEF v, x
    <2>5. WorkerInv(w, x)
      BY <1>1, <2>2, <2>3, TimeAssumption DEF WorkerInv
    <2>6. QED
      BY <2>3, <2>4, <2>5, LocalStep, FaultCount DEF IngestInv
  <1>4. QED
    BY <1>2, <1>3

LEMMA AttemptSteps ==
  ASSUME IngestInv, NEW w \in Worker, StartAttempt(w) \/ GenerateSucceeds(w)
  PROVE  IngestInv'
  <1>1. /\ worker[w] \in WorkerState /\ WorkerInv(w, worker[w])
        /\ Now(w) \in Time /\ Now(w) \in Nat
    BY ClockReadings DEF IngestInv, TypeOK
  <1>2. CASE StartAttempt(w)
    <2> DEFINE x == [worker[w] EXCEPT !.pc = "generating", !.deadline = Deadline(w)]
    <2>1. worker[w].leaseExpiresAt \in Nat /\ CleanupMargin \in Int /\ AttemptTimeout \in Int
      BY <1>1, <1>2, TimeoutAssumption, LeaseAssumption DEF StartAttempt, WorkerInv, CleanupMargin
    <2>2. /\ Deadline(w) \in Int
          /\ Deadline(w) <= worker[w].leaseExpiresAt - CleanupMargin
      BY <1>1, <2>1 DEF Deadline
    <2>3. x \in WorkerState
      BY <1>1, <2>2 DEF WorkerState
    <2>4. WorkerInv(w, x)
      BY <1>1, <1>2, <2>2 DEF WorkerInv, StartAttempt, WorkerState, Held
    <2>5. worker' = [worker EXCEPT ![w] = x] /\ UNCHANGED <<stored, clock, faults, revision>>
      BY <1>2 DEF StartAttempt
    <2> HIDE DEF x
    <2>6. QED
      BY <2>3, <2>4, <2>5, LocalStep, FaultCount DEF IngestInv
  <1>3. CASE GenerateSucceeds(w)
    <2> DEFINE x == [worker[w] EXCEPT !.pc = "completing", !.stamp = Now(w)]
    <2>1. x \in WorkerState
      BY <1>1 DEF WorkerState
    <2>2. WorkerInv(w, x)
      BY <1>1, <1>3 DEF WorkerInv, GenerateSucceeds, WorkerState, Held
    <2>3. worker' = [worker EXCEPT ![w] = x] /\ UNCHANGED <<stored, clock, faults, revision>>
      BY <1>3 DEF GenerateSucceeds
    <2> HIDE DEF x
    <2>4. QED
      BY <2>1, <2>2, <2>3, LocalStep, FaultCount DEF IngestInv
  <1>4. QED
    BY <1>2, <1>3

\* The document is over, or its attempt has failed, and nothing was written.
LEMMA RolledBackSteps ==
  ASSUME IngestInv, NEW w \in Worker,
         \/ GetFails(w) \/ PrepareBusy(w) \/ PrepareUnchanged(w) \/ PrepareFails(w)
         \/ StartFails(w) \/ GenerateFails(w) \/ CompleteVersionFails(w)
         \/ RecordFailureFails(w) \/ Abandon(w)
  PROVE  IngestInv'
  <1>1. /\ UNCHANGED <<stored, clock, revision>>
        /\ Fault \/ UNCHANGED faults
    BY DEF GetFails, PrepareBusy, PrepareUnchanged, PrepareFails, StartFails, GenerateFails,
           CompleteVersionFails, RecordFailureFails, Abandon, FailsBecause
  <1>2. faults' \in 0..MaxFaults
    BY <1>1, FaultCount DEF IngestInv
  <1>3. \E x \in WorkerState : WorkerInv(w, x) /\ worker' = [worker EXCEPT ![w] = x]
    <2>1. CASE ReturnUnsettled(w) \/ Finish(w, "unchanged")
      BY <2>1, Settled DEF Outcome
    <2>2. CASE BeginFailure(w) /\ worker[w].pc \in {"claimed", "generating", "completing"}
      BY <2>2, Failing
    <2>3. QED
      BY <2>1, <2>2 DEF GetFails, PrepareBusy, PrepareUnchanged, PrepareFails, StartFails,
           GenerateFails, CompleteVersionFails, RecordFailureFails, Abandon
  <1>4. QED
    BY <1>1, <1>2, <1>3, LocalStep

LEMMA WorkingRun ==
  ASSUME NEW w \in Worker, NEW v \in Version
  PROVE  RunOf(v, Configured[w]) \in Run
  BY RunAssumption, ConfigAssumption DEF RunOf

\* A claim made by now was made by any later time.
LEMMA HeldLater ==
  ASSUME IngestInv, NEW w \in Worker, NEW x \in WorkerState, x.version \in Version,
         Held(w, x), UNCHANGED attempts, clock' \in Nat, clock <= clock'
  PROVE  Held(w, x)'
  <1> DEFINE r == RunOf(x.version, Configured[w])
  <1>1. attempts[r] \in Seq(AttemptRow) /\ clock \in Nat /\ Skew[w] \in Nat
    BY WorkingRun, SkewAssumption DEF IngestInv, TypeOK, LeaseTypeOK
  <1>2. PICK i \in DOMAIN attempts[r] :
          /\ attempts[r][i].id = x.id
          /\ attempts[r][i].leaseExpiresAt = x.leaseExpiresAt
          /\ attempts[r][i].claimedAt <= clock + Skew[w]
          /\ attempts[r][i].state \in {"active", "expired"}
    BY DEF Held
  <1> HIDE DEF r
  <1>3. attempts[r][i].claimedAt \in Nat
    <2>1. i \in 1..Len(attempts[r])
      BY <1>1, <1>2, LenProperties
    <2>2. attempts[r][i] \in AttemptRow
      BY <1>1, <2>1, ElementOfSeq
    <2>3. QED
      BY <2>2, TimeAssumption DEF AttemptRow
  <1>4. attempts[r][i].claimedAt <= clock' + Skew[w]
    BY <1>1, <1>2, <1>3
  <1>5. QED
    BY <1>2, <1>4 DEF Held, r

LEMMA EnvironmentSteps ==
  ASSUME IngestInv, Tick \/ \E d \in Document : Edit(d)
  PROVE  IngestInv'
  <1>1. LeaseInv' /\ LeaseTypeOK' /\ UNCHANGED <<attempts, worker>>
    BY DEF IngestInv, LeaseInv, LeaseTypeOK, Tick, Edit, stored
  <1>2. /\ clock \in Nat /\ Skew \in [Worker -> Nat]
        /\ worker \in [Worker -> WorkerState]
        /\ revision \in [Document -> Revision]
        /\ \A w \in Worker : WorkerInv(w, worker[w])
    BY SkewAssumption DEF IngestInv, TypeOK
  <1>3. TypeOK'
    BY <1>1, BoundAssumption DEF IngestInv, TypeOK, Tick, Edit, Revision, stored
  <1>4. ASSUME NEW w \in Worker PROVE WorkerInv(w, worker[w])'
    <2> DEFINE x == worker[w]
    <2>1. clock' \in Nat /\ clock <= clock' /\ clock + Skew[w] <= clock' + Skew[w]
      BY <1>2, <1>3 DEF Tick, Edit
    <2>2. x.pc # "idle" /\ Held(w, x) => Held(w, x)'
      BY <1>1, <1>2, <2>1, HeldLater DEF WorkerInv
    <2>3. x.pc = "listed" => x.version.listed <= revision'[x.version.document]
      BY <1>2 DEF WorkerInv, Tick, Edit, Revision, Version
    <2>4. x.pc = "fetched" => x.stamp <= clock' + Skew[w]
      <3>1. x.pc = "fetched" => x.stamp \in Nat /\ x.stamp <= clock + Skew[w]
        BY <1>2, TimeAssumption DEF WorkerInv
      <3>2. clock + Skew[w] \in Nat /\ clock' + Skew[w] \in Nat
        BY <1>2, <2>1
      <3>3. QED
        BY <2>1, <3>1, <3>2
    <2>5. WorkerInv(w, x)
      BY <1>2
    <2>6. QED
      BY <1>1, <2>2, <2>3, <2>4, <2>5 DEF WorkerInv
  <1>5. QED
    BY <1>1, <1>3, <1>4 DEF IngestInv

-----------------------------------------------------------------------------
(* Steps that write the database.                                          *)

\* A claim, or the end of somebody else's attempt, leaves the attempt that
\* x stands for in place: at most it expires.
LEMMA HeldSurvives ==
  ASSUME IngestInv, NEW w \in Worker, NEW x \in WorkerState, x.version \in Version,
         Held(w, x), UNCHANGED clock, NEW r \in Run,
         \/ \E m \in Mode, t \in Time, id \in AttemptId, c \in Time : Claim(r, m, t, id, c)
         \/ \E state \in {"completed", "failed"}, t \in Time, code \in FailureCode \cup {Null} :
              /\ Latest(r).id # x.id
              /\ attempts[r] # <<>>
              /\ FinishLatest(r, state, t, code)
  PROVE  Held(w, x)'
  <1> DEFINE s == RunOf(x.version, Configured[w])
             h == attempts[s]
  <1>1. s \in Run /\ attempts \in [Run -> Seq(AttemptRow)]
    BY WorkingRun DEF IngestInv, TypeOK, LeaseTypeOK
  <1>2. PICK i \in DOMAIN h : /\ h[i].id = x.id
                              /\ h[i].leaseExpiresAt = x.leaseExpiresAt
                              /\ h[i].claimedAt <= clock + Skew[w]
                              /\ h[i].state \in {"active", "expired"}
    BY DEF Held
  <1>3. /\ h \in Seq(AttemptRow) /\ Len(h) \in Nat
        /\ i \in 1..Len(h) /\ h[i] \in AttemptRow
    BY <1>1, <1>2, LenProperties, ElementOfSeq
  <1>4. /\ i \in DOMAIN attempts'[s]
        /\ attempts'[s][i] \in {h[i], Expired(h[i])}
    <2>1. CASE s # r
      BY <1>1, <1>2, <2>1 DEF Claim, FinishLatest
    <2>2. ASSUME s = r, NEW m \in Mode, NEW t \in Time, NEW id \in AttemptId, NEW c \in Time,
                 Claim(r, m, t, id, c)
          PROVE  i \in DOMAIN attempts'[s] /\ attempts'[s][i] = Expired(h[i])
      <3> DEFINE g == Append(Expire(h), NewAttempt(id, c))
      <3>1. attempts'[s] = g
        BY <1>1, <2>2 DEF Claim
      <3>2. g \in Seq(AttemptRow) /\ Len(g) = Len(h) + 1 /\ g[i] = Expired(h[i])
        <4>1. NewAttempt(id, c) \in AttemptRow
          BY ClaimedAttempt
        <4> HIDE DEF h
        <4>2. QED
          BY <1>3, <4>1, ClaimHistory
      <3> HIDE DEF g
      <3>3. i \in DOMAIN g
        BY <1>3, <3>2, LenProperties
      <3>4. QED
        BY <3>1, <3>2, <3>3
    <2>3. ASSUME s = r, NEW state \in {"completed", "failed"}, NEW t \in Time,
                 NEW code \in FailureCode \cup {Null}, Latest(r).id # x.id,
                 FinishLatest(r, state, t, code)
          PROVE  i \in DOMAIN attempts'[s] /\ attempts'[s][i] = h[i]
      <3> DEFINE g == [h EXCEPT ![Len(h)] = Finished(Latest(r), state, t, code)]
      <3>1. attempts'[s] = g
        BY <1>1, <2>3 DEF FinishLatest
      <3>2. i # Len(h) /\ i \in DOMAIN g /\ g[i] = h[i]
        BY <1>2, <1>3, <2>3 DEF Latest
      <3>3. QED
        BY <3>1, <3>2
    <2>4. QED
      BY <2>1, <2>2, <2>3
  <1>5. /\ attempts'[s][i].claimedAt = h[i].claimedAt
        /\ attempts'[s][i].leaseExpiresAt = h[i].leaseExpiresAt
        /\ attempts'[s][i].state \in {"active", "expired"}
        /\ attempts'[s][i].id = h[i].id
    BY <1>2, <1>3, <1>4, ExpiredAttempt DEF Expired, AttemptRow
  <1>6. QED
    BY <1>2, <1>4, <1>5 DEF Held

\* Worker w commits a transaction and moves to x; the others keep their
\* attempts.
LEMMA StoreStep ==
  ASSUME IngestInv, NEW w \in Worker, NEW x \in WorkerState,
         worker' = [worker EXCEPT ![w] = x], LeaseInv',
         UNCHANGED <<clock, revision>>, faults' \in 0..MaxFaults,
         recorded' \in [Version -> Time \cup {Null}],
         current' \in [Document -> Version \cup {Null}],
         WorkerInv(w, x)',
         \A v \in Worker \ {w} :
           worker[v].pc \in {"claimed", "generating", "completing"} => Held(v, worker[v])'
  PROVE  IngestInv'
  <1>1. TypeOK'
    BY DEF IngestInv, LeaseInv, TypeOK
  <1>2. ASSUME NEW v \in Worker PROVE WorkerInv(v, worker[v])'
    <2>1. worker'[v] = IF v = w THEN x ELSE worker[v]
      BY DEF IngestInv, TypeOK
    <2>2. CASE v = w
      BY <2>1, <2>2 DEF WorkerInv
    <2>3. CASE v # w
      <3>1. WorkerInv(v, worker[v])
        BY DEF IngestInv
      <3>2. worker'[v] = worker[v]
        BY <2>1, <2>3
      <3>3. worker[v].pc \in {"claimed", "generating", "completing"} => Held(v, worker[v])'
        BY <2>3
      <3>4. QED
        BY <3>1, <3>2, <3>3 DEF WorkerInv
    <2>4. QED
      BY <2>2, <2>3
  <1>3. QED
    BY <1>1, <1>2 DEF IngestInv

LEMMA ClaimingStep ==
  ASSUME IngestInv, NEW w \in Worker, PrepareClaims(w)
  PROVE  LeaseNext /\ IngestInv'
  <1> DEFINE v  == worker[w].version
             r  == Working(w)
             id == FreshId(w)
             c  == worker[w].stamp
  <1>1. /\ worker[w] \in WorkerState /\ worker[w].pc = "fetched"
        /\ v \in Version /\ c \in Time /\ c \in Nat /\ c <= clock + Skew[w]
        /\ id \in AttemptId /\ id[1] = w /\ DataMode[w] \in Mode
        /\ PutRecordedAt(w) \in Time
    <2>1. worker[w] \in WorkerState /\ WorkerInv(w, worker[w]) /\ worker[w].pc = "fetched"
      BY DEF IngestInv, TypeOK, PrepareClaims
    <2>2. v \in Version /\ c \in Time /\ c \in Nat /\ c <= clock + Skew[w]
      BY <2>1, TimeAssumption DEF WorkerInv
    <2>3. id \in AttemptId /\ id[1] = w /\ DataMode[w] \in Mode
      BY ConfigAssumption DEF PrepareClaims, FreshId
    <2>4. PutRecordedAt(w) \in Time
      BY <2>2 DEF PutRecordedAt, IngestInv, TypeOK
    <2>5. QED
      BY <2>1, <2>2, <2>3, <2>4
  <1>2. r \in Run
    BY <1>1, WorkingRun DEF Working
  <1>3. Claim(r, DataMode[w], PutRecordedAt(w), id, c)
    BY DEF PrepareClaims
  <1>4. LeaseNext
    BY <1>1, <1>2, <1>3 DEF LeaseNext
  <1>5. LeaseInv'
    BY <1>4, LeaseStep DEF IngestInv
  <1>6. PICK x \in WorkerState :
          /\ x = [worker[w] EXCEPT !.pc = "claimed", !.id = id,
                                   !.leaseExpiresAt = c + LeaseDuration, !.stamp = Null]
          /\ x.pc = "claimed" /\ x.id = id /\ x.version = v
          /\ x.leaseExpiresAt = c + LeaseDuration /\ c + LeaseDuration \in Nat
    <2> DEFINE y == [worker[w] EXCEPT !.pc = "claimed", !.id = id,
                                      !.leaseExpiresAt = c + LeaseDuration, !.stamp = Null]
    <2>1. c + LeaseDuration \in Nat
      BY <1>1, LeaseAssumption
    <2> HIDE DEF c, id
    <2>2. /\ y \in WorkerState /\ y.pc = "claimed" /\ y.id = id /\ y.version = v
          /\ y.leaseExpiresAt = c + LeaseDuration
      BY <1>1, <2>1 DEF WorkerState, v
    <2>3. QED
      BY <2>1, <2>2
  <1>7. /\ worker' = [worker EXCEPT ![w] = x]
        /\ UNCHANGED <<clock, faults, revision, current>>
        /\ recorded' \in [Version -> Time \cup {Null}]
        /\ current' \in [Document -> Version \cup {Null}]
        /\ faults' \in 0..MaxFaults
    BY <1>1, <1>6 DEF PrepareClaims, IngestInv, TypeOK
  <1>8. Held(w, x)'
    <2> DEFINE h == attempts[r]
               e == NewAttempt(id, c)
               g == Append(Expire(h), e)
    <2>1. h \in Seq(AttemptRow) /\ e \in AttemptRow
      BY <1>1, <1>2, ClaimedAttempt DEF IngestInv, TypeOK, LeaseTypeOK
    <2>2. attempts'[r] = g
      BY <1>2, <1>3 DEF Claim, IngestInv, TypeOK, LeaseTypeOK
    <2>3. e.id = id /\ e.leaseExpiresAt = c + LeaseDuration /\ e.claimedAt = c /\ e.state = "active"
      BY DEF NewAttempt
    <2> HIDE DEF e, h
    <2>4. Len(h) + 1 \in DOMAIN g /\ g[Len(h) + 1] = e
      BY <2>1, ClaimHistory, LenProperties
    <2> HIDE DEF g
    <2>5. RunOf(x.version, Configured[w]) = r
      BY <1>6 DEF Working
    <2>6. x.id = e.id /\ x.leaseExpiresAt = e.leaseExpiresAt /\ e.claimedAt <= clock' + Skew[w]
      BY <1>1, <1>6, <1>7, <2>3
    <2> HIDE DEF r
    <2>7. QED
      BY <2>2, <2>3, <2>4, <2>5, <2>6 DEF Held
  <1>9. WorkerInv(w, x)'
    BY <1>1, <1>6, <1>8 DEF WorkerInv
  <1>10. ASSUME NEW u \in Worker \ {w},
                worker[u].pc \in {"claimed", "generating", "completing"}
         PROVE  Held(u, worker[u])'
    <2>1. PICK y \in WorkerState : y = worker[u] /\ y.version \in Version /\ Held(u, y)
      BY <1>10 DEF IngestInv, TypeOK, WorkerInv
    <2> HIDE DEF r, id, c
    <2>2. UNCHANGED clock
      BY <1>7
    <2>3. Held(u, y)'
      BY <1>1, <1>2, <1>3, <2>1, <2>2, HeldSurvives
    <2>4. worker'[u] = y
      BY <1>7, <2>1 DEF IngestInv, TypeOK
    <2>5. QED
      BY <2>3, <2>4 DEF Held
  <1> HIDE DEF id, c, v, r
  <1>11. IngestInv'
    <2>1. UNCHANGED <<clock, revision>>
      BY <1>7
    <2>2. x \in WorkerState /\ worker' = [worker EXCEPT ![w] = x]
      BY <1>6, <1>7
    <2>3. \A u \in Worker \ {w} :
            worker[u].pc \in {"claimed", "generating", "completing"} => Held(u, worker[u])'
      BY <1>10
    <2>4. QED
      BY <1>5, <1>7, <1>9, <2>1, <2>2, <2>3, StoreStep
  <1>12. QED
    BY <1>4, <1>11

\* Worker w has ended its own attempt; the attempts of the others do not
\* carry its name.
LEMMA OthersKeepAttempts ==
  ASSUME IngestInv, NEW w \in Worker, NEW v \in Worker \ {w}, NEW x \in WorkerState,
         worker' = [worker EXCEPT ![w] = x], UNCHANGED clock,
         worker[v].pc \in {"claimed", "generating", "completing"},
         NEW r \in Run, Latest(r).id = worker[w].id, worker[w].id[1] = w, attempts[r] # <<>>,
         NEW state \in {"completed", "failed"}, NEW t \in Time,
         NEW code \in FailureCode \cup {Null}, FinishLatest(r, state, t, code)
  PROVE  Held(v, worker[v])'
  <1>1. PICK y \in WorkerState : /\ y = worker[v] /\ y.version \in Version
                                 /\ Held(v, y) /\ y.id[1] = v
    BY DEF IngestInv, TypeOK, WorkerInv
  <1>2. Latest(r).id # y.id
    BY <1>1
  <1>3. Held(v, y)'
    BY <1>1, <1>2, HeldSurvives
  <1>4. worker'[v] = y
    BY <1>1 DEF IngestInv, TypeOK
  <1>5. QED
    BY <1>3, <1>4 DEF Held

LEMMA OwnedRun ==
  ASSUME IngestInv, NEW w \in Worker, worker[w].pc \in {"completing", "failing"},
         ActivelyOwned(Working(w), worker[w].id, worker[w].stamp)
  PROVE  /\ Working(w) \in Run /\ worker[w].version \in Version
         /\ worker[w].id \in AttemptId /\ worker[w].id[1] = w
         /\ worker[w].stamp \in Time
         /\ Latest(Working(w)).id = worker[w].id
         /\ attempts[Working(w)] # <<>>
         /\ runs[Working(w)].digest = Null
         /\ Working(w)[1] = worker[w].version
  <1>1. /\ worker[w].version \in Version
        /\ worker[w].id \in AttemptId /\ worker[w].id[1] = w
        /\ worker[w].stamp \in Time
    BY DEF IngestInv, WorkerInv
  <1>2. Working(w) \in Run /\ Working(w)[1] = worker[w].version
    BY <1>1, WorkingRun DEF Working, RunOf
  <1>3. Latest(Working(w)).id = worker[w].id /\ runs[Working(w)].state = "active"
    BY DEF ActivelyOwned
  <1>4. RowAgrees(runs[Working(w)], attempts[Working(w)])
    BY <1>2 DEF IngestInv, LeaseInv, RunInv
  <1>5. attempts[Working(w)] # <<>> /\ runs[Working(w)].digest = Null
    BY <1>3, <1>4 DEF RowAgrees
  <1>6. QED
    BY <1>1, <1>2, <1>3, <1>5

LEMMA CompletingStep ==
  ASSUME IngestInv, NEW w \in Worker,
         CompleteVersion(w) \/ CompleteVersionUnacknowledged(w)
  PROVE  LeaseNext /\ IngestInv'
  <1>1. CommitVersion(w) /\ worker[w].pc = "completing" /\ ActivelyOwned(Working(w), worker[w].id, worker[w].stamp)
    BY DEF CompleteVersion, CompleteVersionUnacknowledged, CommitVersion, Complete
  <1>2. /\ Working(w) \in Run /\ worker[w].version \in Version
        /\ worker[w].id \in AttemptId /\ worker[w].id[1] = w
        /\ worker[w].stamp \in Time
        /\ Latest(Working(w)).id = worker[w].id
        /\ attempts[Working(w)] # <<>>
    BY <1>1, OwnedRun
  <1>3. Complete(Working(w), worker[w].id, worker[w].stamp, worker[w].id)
    BY <1>1 DEF CommitVersion
  <1>4. LeaseNext
    BY <1>2, <1>3, AttemptAssumption DEF LeaseNext
  <1>5. LeaseInv'
    BY <1>4, LeaseStep DEF IngestInv
  <1>6. PICK x \in WorkerState : /\ x.pc \in {"idle", "failing"} /\ WorkerInv(w, x)
                                 /\ worker' = [worker EXCEPT ![w] = x]
    <2>1. CASE Finish(w, "completed")
      BY <2>1, Settled DEF Outcome
    <2>2. CASE BeginFailure(w)
      BY <1>1, <2>2, Failing
    <2>3. QED
      BY <2>1, <2>2 DEF CompleteVersion, CompleteVersionUnacknowledged
  <1>7. /\ UNCHANGED <<clock, revision, recorded>>
        /\ faults' \in 0..MaxFaults
        /\ recorded' \in [Version -> Time \cup {Null}]
    BY <1>1, FaultCount
       DEF CommitVersion, CompleteVersion, CompleteVersionUnacknowledged, IngestInv, TypeOK
  <1>8. current' \in [Document -> Version \cup {Null}]
    BY <1>1, <1>2 DEF CommitVersion, IngestInv, TypeOK
  <1>9. WorkerInv(w, x)'
    BY <1>6, <1>7 DEF WorkerInv
  <1>10. ASSUME NEW v \in Worker \ {w}, worker[v].pc \in {"claimed", "generating", "completing"}
         PROVE  Held(v, worker[v])'
    BY <1>2, <1>3, <1>6, <1>7, <1>10, OthersKeepAttempts DEF Complete
  <1>11. QED
    BY <1>4, <1>5, <1>6, <1>7, <1>8, <1>9, <1>10, StoreStep

LEMMA FailingStep ==
  ASSUME IngestInv, NEW w \in Worker,
         RecordFailure(w) \/ RecordFailureUnacknowledged(w)
  PROVE  LeaseNext /\ IngestInv'
  <1>1. CommitFailure(w) /\ worker[w].pc = "failing"
    BY DEF RecordFailure, RecordFailureUnacknowledged, CommitFailure
  <1>2. PICK code \in FailureCode : Fail(Working(w), worker[w].id, worker[w].stamp, code)
    BY <1>1 DEF CommitFailure
  <1>3. /\ Working(w) \in Run
        /\ worker[w].id \in AttemptId /\ worker[w].id[1] = w
        /\ worker[w].stamp \in Time
        /\ Latest(Working(w)).id = worker[w].id
        /\ attempts[Working(w)] # <<>>
    BY <1>1, <1>2, OwnedRun DEF Fail
  <1>4. LeaseNext
    BY <1>2, <1>3 DEF LeaseNext
  <1>5. LeaseInv'
    BY <1>4, LeaseStep DEF IngestInv
  <1>6. PICK x \in WorkerState : /\ x.pc = "idle" /\ WorkerInv(w, x)
                                 /\ worker' = [worker EXCEPT ![w] = x]
    BY Settled DEF Outcome, RecordFailure, RecordFailureUnacknowledged
  <1>7. /\ UNCHANGED <<clock, revision, recorded, current>>
        /\ faults' \in 0..MaxFaults
        /\ recorded' \in [Version -> Time \cup {Null}]
        /\ current' \in [Document -> Version \cup {Null}]
    BY <1>1, FaultCount
       DEF CommitFailure, RecordFailure, RecordFailureUnacknowledged, IngestInv, TypeOK
  <1>8. WorkerInv(w, x)'
    BY <1>6 DEF WorkerInv
  <1>9. ASSUME NEW v \in Worker \ {w}, worker[v].pc \in {"claimed", "generating", "completing"}
        PROVE  Held(v, worker[v])'
    BY <1>2, <1>3, <1>6, <1>7, <1>9, OthersKeepAttempts DEF Fail
  <1>10. QED
    BY <1>4, <1>5, <1>6, <1>7, <1>8, <1>9, StoreStep

-----------------------------------------------------------------------------
(* The theorems.                                                           *)

\* Every step of Ingest either is a transaction of the lease protocol or
\* leaves its tables alone.
LEMMA StepInv ==
  ASSUME IngestInv, [Next]_vars
  PROVE  IngestInv' /\ [LeaseNext]_leaseVars
  <1>1. ASSUME NEW w \in Worker, Proceed(w) \/ Abandon(w)
        PROVE  IngestInv' /\ [LeaseNext]_leaseVars
    <2>1. CASE (\E d \in Document : List(w, d)) \/ Get(w)
      BY <2>1, ReadSteps DEF List, Get, stored, leaseVars
    <2>2. CASE StartAttempt(w) \/ GenerateSucceeds(w)
      BY <2>2, AttemptSteps DEF StartAttempt, GenerateSucceeds, stored, leaseVars
    <2>3. CASE \/ GetFails(w) \/ PrepareBusy(w) \/ PrepareUnchanged(w) \/ PrepareFails(w)
               \/ StartFails(w) \/ GenerateFails(w) \/ CompleteVersionFails(w)
               \/ RecordFailureFails(w) \/ Abandon(w)
      <3>1. UNCHANGED leaseVars
        BY <2>3 DEF GetFails, PrepareBusy, PrepareUnchanged, PrepareFails, StartFails,
             GenerateFails, CompleteVersionFails, RecordFailureFails, Abandon, stored, leaseVars
      <3>2. QED
        BY <2>3, <3>1, RolledBackSteps
    <2>4. CASE PrepareClaims(w)
      BY <2>4, ClaimingStep
    <2>5. CASE CompleteVersion(w) \/ CompleteVersionUnacknowledged(w)
      BY <2>5, CompletingStep
    <2>6. CASE RecordFailure(w) \/ RecordFailureUnacknowledged(w)
      BY <2>6, FailingStep
    <2>7. QED
      BY <1>1, <2>1, <2>2, <2>3, <2>4, <2>5, <2>6 DEF Proceed
  <1>2. CASE Tick \/ \E d \in Document : Edit(d)
    BY <1>2, EnvironmentSteps DEF Tick, Edit, stored, leaseVars
  <1>3. CASE UNCHANGED vars
    <2>1. LeaseInv' /\ LeaseTypeOK'
      BY <1>3 DEF IngestInv, LeaseInv, LeaseTypeOK, vars
    <2>2. TypeOK' /\ \A w \in Worker : WorkerInv(w, worker[w])'
      BY <1>3, <2>1 DEF IngestInv, TypeOK, WorkerInv, Held, vars
    <2>3. QED
      BY <1>3, <2>1, <2>2 DEF IngestInv, vars, leaseVars
  <1>4. QED
    BY <1>1, <1>2, <1>3 DEF Next

LEMMA InductiveInv == Spec => []IngestInv
  <1>1. Init => IngestInv
    BY IngestInitInv
  <1>2. IngestInv /\ [Next]_vars => IngestInv'
    BY StepInv
  <1>3. QED
    BY <1>1, <1>2, PTL DEF Spec

\* Every value the system keeps, in the tables and in the processes, stays
\* inside its type.
THEOREM IngestTypeCorrect == Spec => []TypeOK
  <1>1. IngestInv => TypeOK
    BY DEF IngestInv
  <1>2. QED
    BY <1>1, InductiveInv, PTL

\* The syncs, crashes, retries and late answers of Ingest drive the tables
\* only along steps of the lease protocol, so everything proved of Lease
\* holds of them.
THEOREM IngestFollowsLease == Spec => FollowsLease
  <1>1. Init => LeaseInit
    BY DEF Init
  <1>2. IngestInv /\ [Next]_vars => [LeaseNext]_leaseVars
    BY StepInv
  <1>3. QED
    BY <1>1, <1>2, InductiveInv, PTL DEF Spec, FollowsLease, LeaseSpec

\* Two attempts of one derivation, the earlier of which has not ended well:
\* its lease was over when the later one was claimed.
LEMMA AttemptsApart ==
  ASSUME IngestInv, NEW r \in Run, NEW i \in DOMAIN attempts[r], NEW j \in DOMAIN attempts[r],
         i < j, attempts[r][i].state \in {"active", "expired"}
  PROVE  attempts[r][i].leaseExpiresAt <= attempts[r][j].claimedAt
  <1> DEFINE h == attempts[r]
  <1>1. /\ h \in Seq(AttemptRow) /\ Len(h) \in Nat
        /\ i \in 1..Len(h) /\ j \in 1..Len(h) /\ h[i] \in AttemptRow
    BY LenProperties, ElementOfSeq DEF IngestInv, TypeOK, LeaseTypeOK
  <1>2. HistoryOK(runs[r], h)
    BY DEF IngestInv, LeaseInv, RunInv
  <1>3. h[i].state = "expired" /\ h[i].terminalAt <= h[j].claimedAt /\ AttemptOK(runs[r], h[i])
    BY <1>1, <1>2 DEF HistoryOK
  <1>4. QED
    BY <1>3 DEF AttemptOK

\* README.md:742: no two processes ever work on the same derivation at the
\* same time, as long as their clocks differ by no more than the margin
\* between the attempt timeout and the lease.
THEOREM OneModelCallPerDerivation ==
  ASSUME \A v, w \in Worker : Skew[v] - Skew[w] <= CleanupMargin
  PROVE  Spec => []NoDuplicateModelWork
  <1>1. IngestInv => NoDuplicateModelWork
    <2> SUFFICES ASSUME IngestInv, NEW w1 \in Worker, NEW w2 \in Worker, w1 # w2,
                        InAttempt(w1), InAttempt(w2), Working(w1) = Working(w2)
                 PROVE  FALSE
      BY DEF NoDuplicateModelWork
    <2> DEFINE r == Working(w1)
    <2>1. ASSUME NEW w \in Worker, InAttempt(w), Working(w) = r
          PROVE  /\ worker[w].id[1] = w
                 /\ worker[w].leaseExpiresAt \in Nat
                 /\ clock + Skew[w] < worker[w].leaseExpiresAt - CleanupMargin
                 /\ \E i \in DOMAIN attempts[r] :
                      /\ attempts[r][i].id = worker[w].id
                      /\ attempts[r][i].leaseExpiresAt = worker[w].leaseExpiresAt
                      /\ attempts[r][i].claimedAt <= clock + Skew[w]
                      /\ attempts[r][i].state \in {"active", "expired"}
      <3>1. WorkerInv(w, worker[w]) /\ Now(w) = clock + Skew[w] /\ Now(w) \in Nat
        BY ClockReadings DEF IngestInv
      <3>2. worker[w].pc \in {"generating", "completing"} /\ Now(w) < worker[w].deadline
        BY <2>1 DEF InAttempt
      <3>3. CleanupMargin \in Int
        BY TimeoutAssumption, LeaseAssumption DEF CleanupMargin
      <3>4. Held(w, worker[w]) /\ worker[w].id[1] = w /\ worker[w].leaseExpiresAt \in Nat
        BY <3>1, <3>2 DEF WorkerInv
      <3>5. clock + Skew[w] < worker[w].leaseExpiresAt - CleanupMargin
        BY <3>1, <3>2, <3>3, <3>4 DEF WorkerInv
      <3>6. QED
        BY <2>1, <3>4, <3>5 DEF Held, Working
    <2>2. PICK i \in DOMAIN attempts[r] :
            /\ attempts[r][i].id = worker[w1].id
            /\ attempts[r][i].leaseExpiresAt = worker[w1].leaseExpiresAt
            /\ attempts[r][i].claimedAt <= clock + Skew[w1]
            /\ attempts[r][i].state \in {"active", "expired"}
      BY <2>1
    <2>3. PICK j \in DOMAIN attempts[r] :
            /\ attempts[r][j].id = worker[w2].id
            /\ attempts[r][j].leaseExpiresAt = worker[w2].leaseExpiresAt
            /\ attempts[r][j].claimedAt <= clock + Skew[w2]
            /\ attempts[r][j].state \in {"active", "expired"}
      BY <2>1
    <2>4. i # j
      BY <2>1, <2>2, <2>3
    <2>5. /\ clock + Skew[w1] < worker[w1].leaseExpiresAt - CleanupMargin
          /\ clock + Skew[w2] < worker[w2].leaseExpiresAt - CleanupMargin
          /\ worker[w1].leaseExpiresAt \in Nat /\ worker[w2].leaseExpiresAt \in Nat
      BY <2>1
    <2>6. r \in Run
      BY WorkingRun DEF InAttempt, IngestInv, WorkerInv, Working
    <2>7. /\ i \in Nat /\ j \in Nat /\ clock \in Nat /\ Skew[w1] \in Nat /\ Skew[w2] \in Nat
          /\ CleanupMargin \in Int
          /\ attempts[r][i].claimedAt \in Nat /\ attempts[r][j].claimedAt \in Nat
      <3>1. attempts[r] \in Seq(AttemptRow) /\ clock \in Nat
        BY <2>6 DEF IngestInv, TypeOK, LeaseTypeOK
      <3>2. i \in 1..Len(attempts[r]) /\ j \in 1..Len(attempts[r]) /\ Len(attempts[r]) \in Nat
        BY <3>1, LenProperties
      <3>3. attempts[r][i] \in AttemptRow /\ attempts[r][j] \in AttemptRow
        BY <3>1, <3>2, ElementOfSeq
      <3>4. attempts[r][i].claimedAt \in Nat /\ attempts[r][j].claimedAt \in Nat
        BY <3>3, TimeAssumption DEF AttemptRow
      <3>5. CleanupMargin \in Int /\ Skew[w1] \in Nat /\ Skew[w2] \in Nat
        BY SkewAssumption, TimeoutAssumption, LeaseAssumption DEF CleanupMargin
      <3>6. QED
        BY <3>1, <3>2, <3>4, <3>5
    <2> HIDE DEF r
    <2>8. CASE i < j
      <3>1. worker[w1].leaseExpiresAt <= attempts[r][j].claimedAt
        BY <2>2, <2>6, <2>8, AttemptsApart
      <3>2. Skew[w2] - Skew[w1] <= CleanupMargin
        OBVIOUS
      <3>3. QED
        BY <2>3, <2>5, <2>7, <3>1, <3>2
    <2>9. CASE j < i
      <3>1. worker[w2].leaseExpiresAt <= attempts[r][i].claimedAt
        BY <2>3, <2>6, <2>9, AttemptsApart
      <3>2. Skew[w1] - Skew[w2] <= CleanupMargin
        OBVIOUS
      <3>3. QED
        BY <2>2, <2>5, <2>7, <3>1, <3>2
    <2>10. QED
      BY <2>4, <2>7, <2>8, <2>9
  <1>2. QED
    BY <1>1, InductiveInv, PTL

\* A derivation publishes once, for good, and the current version of a
\* document moves only in the step that publishes a write set of it: Ingest
\* implements Publication.
THEOREM IngestImplementsPublication == Spec => PublishesOnce
  <1>1. Init => Published!Init
    BY DEF Init, LeaseInit, AbsentRun, Published!Init
  <1>2. IngestInv /\ [Next]_vars => [Published!Next]_(Published!publicationVars)
    <2> SUFFICES ASSUME IngestInv, [Next]_vars
                 PROVE  [Published!Next]_(Published!publicationVars)
      OBVIOUS
    <2>1. runs \in [Run -> RunRow] /\ runs' \in [Run -> RunRow] /\ current \in [Document -> Version \cup {Null}]
      BY StepInv DEF IngestInv, TypeOK, LeaseTypeOK
    <2>2. ASSUME NEW w \in Worker, CommitVersion(w)
          PROVE  Published!Publish(Working(w), worker[w].id)
      <3>1. Complete(Working(w), worker[w].id, worker[w].stamp, worker[w].id)
            /\ current' = [current EXCEPT ![DocumentOf(worker[w].version)] = worker[w].version]
        BY <2>2 DEF CommitVersion
      <3>2. Working(w) \in Run /\ runs[Working(w)].digest = Null /\ VersionOf(Working(w)) = worker[w].version
        BY <2>2, <3>1, OwnedRun DEF CommitVersion, Complete, VersionOf
      <3>3. [r \in Run |-> runs'[r].digest] =
              [[r \in Run |-> runs[r].digest] EXCEPT ![Working(w)] = worker[w].id]
        BY <2>1, <3>1, <3>2 DEF Complete, RunRow
      <3>4. QED
        BY <3>1, <3>2, <3>3 DEF Published!Publish
    <2>3. ASSUME NEW w \in Worker, CompleteVersion(w) \/ CompleteVersionUnacknowledged(w)
          PROVE  Published!Next
      <3>1. CommitVersion(w) /\ ActivelyOwned(Working(w), worker[w].id, worker[w].stamp)
        BY <2>3 DEF CompleteVersion, CompleteVersionUnacknowledged, CommitVersion, Complete
      <3>2. Working(w) \in Run /\ worker[w].id \in AttemptId
        BY <3>1, OwnedRun DEF CommitVersion
      <3>3. Published!Publish(Working(w), worker[w].id)
        BY <2>2, <3>1
      <3>4. QED
        BY <3>2, <3>3 DEF Published!Next, Published!Publish
    <2>4. ASSUME NEW w \in Worker,
                 PrepareClaims(w) \/ RecordFailure(w) \/ RecordFailureUnacknowledged(w)
          PROVE  UNCHANGED Published!publicationVars
      <3>1. \E r \in Run, q \in RunRow : /\ runs' = [runs EXCEPT ![r] = q]
                                         /\ q.digest = runs[r].digest
        <4>1. CASE PrepareClaims(w)
          <5> DEFINE r == Working(w)
                     q == [runs[r] EXCEPT !.state = "active", !.mode = DataMode[w],
                                          !.recordedAt = PutRecordedAt(w)]
          <5>1. worker[w].version \in Version
            BY <4>1 DEF PrepareClaims, IngestInv, WorkerInv
          <5>2. r \in Run
            BY <5>1, WorkingRun DEF Working
          <5>3. runs' = [runs EXCEPT ![r] = q]
            BY <4>1, <2>1 DEF PrepareClaims, Claim
          <5>4. q.digest = runs[r].digest
            BY <2>1, <5>2 DEF RunRow
          <5> HIDE DEF q, r
          <5>5. q \in RunRow
            BY <2>1, <5>2, <5>3
          <5>6. QED
            BY <5>2, <5>3, <5>4, <5>5
        <4>2. CASE RecordFailure(w) \/ RecordFailureUnacknowledged(w)
          <5> DEFINE r == Working(w)
                     q == [runs[r] EXCEPT !.state = "failed"]
          <5>1. r \in Run
            BY <4>2, OwnedRun DEF RecordFailure, RecordFailureUnacknowledged, CommitFailure, Fail
          <5>2. runs' = [runs EXCEPT ![r] = q]
            BY <4>2, <2>1 DEF RecordFailure, RecordFailureUnacknowledged, CommitFailure, Fail
          <5>3. q.digest = runs[r].digest
            BY <2>1, <5>1 DEF RunRow
          <5> HIDE DEF q, r
          <5>4. q \in RunRow
            BY <2>1, <5>1, <5>2
          <5>5. QED
            BY <5>1, <5>2, <5>3, <5>4
        <4>3. QED
          BY <2>4, <4>1, <4>2
      <3>2. \A r \in Run : runs'[r].digest = runs[r].digest
        BY <2>1, <3>1
      <3>3. UNCHANGED current
        BY <2>4 DEF PrepareClaims, RecordFailure, RecordFailureUnacknowledged, CommitFailure
      <3>4. QED
        BY <3>2, <3>3 DEF Published!publicationVars
    <2>5. CASE \/ UNCHANGED vars \/ Tick \/ \E d \in Document : Edit(d)
               \/ \E w \in Worker :
                    \/ (\E d \in Document : List(w, d)) \/ Get(w)
                    \/ StartAttempt(w) \/ GenerateSucceeds(w)
                    \/ GetFails(w) \/ PrepareBusy(w) \/ PrepareUnchanged(w) \/ PrepareFails(w)
                    \/ StartFails(w) \/ GenerateFails(w) \/ CompleteVersionFails(w)
                    \/ RecordFailureFails(w) \/ Abandon(w)
      <3>1. UNCHANGED <<runs, current>>
        BY <2>5 DEF vars, Tick, Edit, List, Get, StartAttempt, GenerateSucceeds, GetFails,
             PrepareBusy, PrepareUnchanged, PrepareFails, StartFails, GenerateFails,
             CompleteVersionFails, RecordFailureFails, Abandon, stored
      <3>2. QED
        BY <3>1 DEF Published!publicationVars
    <2>6. QED
      BY <2>3, <2>4, <2>5 DEF Next, Proceed
  <1>3. QED
    BY <1>1, <1>2, InductiveInv, PTL DEF Spec, PublishesOnce, Published!Spec

-----------------------------------------------------------------------------
(* What a process has reported, and the pointer, rest on rows that are never *)
(* rewritten: on completed runs and on ended attempts with an ID of their    *)
(* own.                                                                      *)

IdsUnique ==
  \A r \in Run : \A i, j \in DOMAIN attempts[r] : attempts[r][i].id = attempts[r][j].id => i = j

HasFailed(r, id) == \E i \in DOMAIN attempts[r] : attempts[r][i].id = id /\ attempts[r][i].state = "failed"

OutcomeOK(w, x) ==
  LET r == RunOf(x.version, Configured[w]) IN
  /\ x.outcome # "none" => x.pc = "idle" /\ x.version \in Version
  /\ x.outcome = "completed" => Completed(r) /\ runs[r].digest = x.id
  /\ x.outcome = "unchanged" => Completed(r)
  /\ x.outcome = "failed" => HasFailed(r, x.id)

ResultInv ==
  /\ IdsUnique
  /\ \A w \in Worker : OutcomeOK(w, worker[w])
  /\ CurrentIsExtracted

\* Every claim brings an ID nobody has used, and no step changes one.
LEMMA IdsStayUnique ==
  ASSUME LeaseInv, IdsUnique, [LeaseNext]_leaseVars
  PROVE  IdsUnique'
  <1>0. attempts \in [Run -> Seq(AttemptRow)]
    BY DEF LeaseInv, LeaseTypeOK
  <1> SUFFICES ASSUME NEW s \in Run PROVE
        \A i, j \in DOMAIN attempts'[s] : attempts'[s][i].id = attempts'[s][j].id => i = j
    BY DEF IdsUnique
  <1> DEFINE h == attempts[s]
  <1>1. /\ h \in Seq(AttemptRow) /\ Len(h) \in Nat /\ DOMAIN h = 1..Len(h)
        /\ \A i \in 1..Len(h) : h[i] \in AttemptRow
    BY <1>0, LenProperties, ElementOfSeq
  <1>2. \A i, j \in 1..Len(h) : h[i].id = h[j].id => i = j
    BY <1>1 DEF IdsUnique
  <1>3. CASE attempts'[s] = h
    BY <1>1, <1>2, <1>3
  <1>4. ASSUME NEW m \in Mode, NEW t \in Time, NEW id \in AttemptId, NEW c \in Time,
               Claim(s, m, t, id, c)
        PROVE  \A i, j \in DOMAIN attempts'[s] : attempts'[s][i].id = attempts'[s][j].id => i = j
    <2> DEFINE g == Append(Expire(h), NewAttempt(id, c))
    <2>1. attempts'[s] = g
      BY <1>0, <1>4 DEF Claim
    <2>2. /\ DOMAIN g = 1..(Len(h) + 1)
          /\ g[Len(h) + 1].id = id
          /\ \A i \in 1..Len(h) : g[i] = Expired(h[i])
      <3>1. NewAttempt(id, c) \in AttemptRow /\ NewAttempt(id, c).id = id
        BY ClaimedAttempt DEF NewAttempt
      <3> QED
        BY <1>1, <3>1, ClaimHistory, LenProperties
    <2>3. \A i \in 1..Len(h) : g[i].id = h[i].id
      BY <1>1, <2>2 DEF Expired, AttemptRow
    <2>4. \A i \in 1..Len(h) : h[i].id # id
      BY <1>1, <1>4 DEF Claim, AnswersClaimed, UsedIds
    <2> HIDE DEF g, h
    <2> QED
      BY <1>1, <1>2, <2>1, <2>2, <2>3, <2>4
  <1>5. ASSUME NEW state \in {"completed", "failed"}, NEW t \in Time,
               NEW code \in FailureCode \cup {Null}, FinishLatest(s, state, t, code),
               Latest(s).state = "active", runs[s].state = "active"
        PROVE  \A i, j \in DOMAIN attempts'[s] : attempts'[s][i].id = attempts'[s][j].id => i = j
    <2> DEFINE e == Finished(Latest(s), state, t, code)
    <2>1. h # <<>>
      BY <1>5 DEF LeaseInv, RunInv, RowAgrees
    <2>2. Len(h) \in 1..Len(h) /\ Latest(s) = h[Len(h)] /\ Latest(s) \in AttemptRow
      BY <1>1, <2>1, EmptySeq DEF Latest
    <2>3. e \in AttemptRow /\ e.id = h[Len(h)].id
      BY <2>2, FinishedAttempt DEF Finished, AttemptRow
    <2>4. attempts'[s] = [h EXCEPT ![Len(h)] = e]
      BY <1>0, <1>5 DEF FinishLatest
    <2> HIDE DEF e, h
    <2>5. /\ DOMAIN attempts'[s] = 1..Len(h)
          /\ \A i \in 1..Len(h) : attempts'[s][i].id = h[i].id
      BY <1>1, <2>2, <2>3, <2>4
    <2> QED
      BY <1>2, <2>5
  <1>6. CASE LeaseNext
    <2>1. PICK r \in Run, id \in AttemptId, t \in Time :
            \/ \E m \in Mode, recordedAt \in Time : Claim(r, m, recordedAt, id, t)
            \/ \E code \in FailureCode : Fail(r, id, t, code)
            \/ \E digest \in Digest : Complete(r, id, t, digest)
      BY <1>6 DEF LeaseNext
    <2>2. CASE r # s
      <3>1. attempts'[s] = h
        BY <1>0, <2>1, <2>2 DEF Claim, Fail, Complete, FinishLatest
      <3> QED
        BY <1>3, <3>1
    <2>3. CASE r = s
      BY <1>4, <1>5, <2>1, <2>3 DEF Fail, Complete, ActivelyOwned
    <2> QED
      BY <2>2, <2>3
  <1> QED
    BY <1>3, <1>6 DEF leaseVars

\* Completed runs and ended attempts stay as they are.
LEMMA RowsStay ==
  ASSUME IngestInv, [Next]_vars
  PROVE  \A r \in Run : Extends(runs[r], attempts[r], runs'[r], attempts'[r])
  <1>1. LeaseInv /\ [LeaseNext]_leaseVars /\ attempts \in [Run -> Seq(AttemptRow)]
    BY StepInv DEF IngestInv, TypeOK, LeaseTypeOK
  <1>2. CASE LeaseNext
    BY <1>1, <1>2, LeaseStep
  <1>3. CASE UNCHANGED leaseVars
    BY <1>1, <1>3, LenProperties DEF leaseVars, Extends
  <1> QED
    BY <1>1, <1>2, <1>3

\* An outcome once reported stays true.
LEMMA OutcomeStays ==
  ASSUME IngestInv, [Next]_vars, NEW w \in Worker, NEW x \in WorkerState, OutcomeOK(w, x)
  PROVE  OutcomeOK(w, x)'
  <1> DEFINE r == RunOf(x.version, Configured[w])
  <1>1. x.outcome # "none" => r \in Run
    BY WorkingRun DEF OutcomeOK
  <1>2. x.outcome # "none" => Extends(runs[r], attempts[r], runs'[r], attempts'[r])
    BY <1>1, RowsStay
  <1>3. x.outcome # "none" /\ Completed(r) => Completed(r)' /\ runs'[r] = runs[r]
    BY <1>2 DEF Extends, Completed
  <1>4. ASSUME x.outcome = "failed" PROVE HasFailed(r, x.id)'
    <2>1. PICK i \in DOMAIN attempts[r] : attempts[r][i].id = x.id /\ attempts[r][i].state = "failed"
      BY <1>4 DEF OutcomeOK, HasFailed
    <2>2. attempts'[r][i] = attempts[r][i] /\ Len(attempts[r]) <= Len(attempts'[r])
      BY <1>2, <1>4, <2>1 DEF Extends
    <2>3. i \in DOMAIN attempts'[r]
      <3>1. attempts[r] \in Seq(AttemptRow) /\ attempts'[r] \in Seq(AttemptRow)
        BY <1>1, <1>4, StepInv DEF IngestInv, TypeOK, LeaseTypeOK
      <3> QED
        BY <2>1, <2>2, <3>1, LenProperties
    <2> QED
      BY <2>1, <2>2, <2>3 DEF HasFailed
  <1> QED
    BY <1>3, <1>4 DEF OutcomeOK

\* What the process that takes a step reports is true when it reports it.
LEMMA OutcomeStep ==
  ASSUME IngestInv, ResultInv, NEW w \in Worker, Proceed(w) \/ Abandon(w)
  PROVE  /\ OutcomeOK(w, worker[w])'
         /\ \A v \in Worker \ {w} : worker'[v] = worker[v]
  <1>0. /\ worker \in [Worker -> WorkerState]
        /\ runs \in [Run -> RunRow] /\ attempts \in [Run -> Seq(AttemptRow)]
    BY DEF IngestInv, TypeOK, LeaseTypeOK
  <1>1. \A v \in Worker \ {w} : worker'[v] = worker[v]
    BY <1>0 DEF Proceed, Abandon, List, Get, GetFails, PrepareClaims, PrepareBusy, PrepareUnchanged,
         PrepareFails, StartAttempt, StartFails, GenerateSucceeds, GenerateFails,
         CompleteVersion, CompleteVersionUnacknowledged, CompleteVersionFails, RecordFailure,
         RecordFailureUnacknowledged, RecordFailureFails, Finish, ReturnUnsettled, BeginFailure
  <1>2. PICK x \in WorkerState : x = worker[w] /\ WorkerInv(w, x) /\ OutcomeOK(w, x)
    BY <1>0 DEF IngestInv, ResultInv
  <1>3. PICK y : y = worker'[w]
    OBVIOUS
  <1>4. PICK r : r = Working(w)
    OBVIOUS
  <1>5. r = RunOf(x.version, Configured[w])
    BY <1>2, <1>4 DEF Working
  <1>6. ASSUME y.outcome = "none" PROVE OutcomeOK(w, y)'
    BY <1>6 DEF OutcomeOK
  <1>7. ASSUME NEW outcome \in Outcome, Finish(w, outcome)
        PROVE  y.pc = "idle" /\ y.version = x.version /\ y.id = x.id /\ y.outcome = outcome
    BY <1>0, <1>2, <1>3, <1>7 DEF Finish, Idle
  <1>8. ASSUME PrepareUnchanged(w) PROVE OutcomeOK(w, y)'
    <2>1. /\ x.version \in Version /\ runs[r].state = "completed" /\ UNCHANGED <<runs, attempts>>
          /\ Finish(w, "unchanged")
      BY <1>2, <1>4, <1>8 DEF PrepareUnchanged, WorkerInv, FindsCompleted, AnswersCompleted, stored
    <2>2. y.pc = "idle" /\ y.version = x.version /\ y.id = x.id /\ y.outcome = "unchanged"
      BY <1>7, <2>1 DEF Outcome
    <2>3. RunOf(y.version, Configured[w]) = r /\ runs'[r].state = "completed"
      BY <1>5, <2>1, <2>2
    <2> QED
      BY <2>1, <2>2, <2>3 DEF OutcomeOK, Completed
  <1>9. ASSUME CompleteVersion(w) PROVE OutcomeOK(w, y)'
    <2>1. /\ Complete(r, x.id, x.stamp, x.id) /\ x.pc = "completing"
          /\ Finish(w, "completed")
      BY <1>2, <1>4, <1>9 DEF CompleteVersion, CommitVersion
    <2>2. r \in Run /\ x.version \in Version
      BY <1>2, <1>4, <2>1, OwnedRun DEF Complete
    <2>3. runs'[r].state = "completed" /\ runs'[r].digest = x.id
      BY <1>0, <2>1, <2>2 DEF Complete, RunRow
    <2>4. y.pc = "idle" /\ y.version = x.version /\ y.id = x.id /\ y.outcome = "completed"
      BY <1>7, <2>1 DEF Outcome
    <2>5. RunOf(y.version, Configured[w]) = r
      BY <1>5, <2>4
    <2> QED
      BY <2>2, <2>3, <2>4, <2>5 DEF OutcomeOK, Completed
  <1>10. ASSUME RecordFailure(w) PROVE OutcomeOK(w, y)'
    <2>1. CommitFailure(w) /\ Finish(w, "failed") /\ x.pc = "failing"
      BY <1>2, <1>10 DEF RecordFailure, CommitFailure
    <2>2. PICK code \in FailureCode : Fail(r, x.id, x.stamp, code)
      BY <1>2, <1>4, <2>1 DEF CommitFailure
    <2>3. /\ r \in Run /\ x.version \in Version /\ Latest(r).id = x.id /\ attempts[r] # <<>>
      BY <1>2, <1>4, <2>1, <2>2, OwnedRun DEF Fail
    <2>4. PICK h \in Seq(AttemptRow) : h = attempts[r] /\ h # <<>>
      BY <1>0, <2>3
    <2>5. Len(h) \in 1..Len(h) /\ DOMAIN h = 1..Len(h) /\ Latest(r) = h[Len(h)]
          /\ h[Len(h)] \in AttemptRow
      BY <2>4, EmptySeq, LenProperties, ElementOfSeq DEF Latest
    <2>6. PICK e : e = Finished(Latest(r), "failed", x.stamp, code)
      OBVIOUS
    <2>7. e.state = "failed" /\ e.id = x.id
      BY <2>3, <2>5, <2>6 DEF Finished, AttemptRow
    <2>8. attempts'[r] = [h EXCEPT ![Len(h)] = e]
      BY <1>0, <2>2, <2>3, <2>4, <2>6 DEF Fail, FinishLatest
    <2>9. /\ Len(h) \in DOMAIN attempts'[r] /\ attempts'[r][Len(h)] = e
      BY <2>5, <2>8
    <2>10. y.pc = "idle" /\ y.version = x.version /\ y.id = x.id /\ y.outcome = "failed"
      BY <1>7, <2>1 DEF Outcome
    <2>11. RunOf(y.version, Configured[w]) = r
      BY <1>5, <2>10
    <2>12. \E i \in DOMAIN attempts'[r] : attempts'[r][i].id = y.id /\ attempts'[r][i].state = "failed"
      BY <2>7, <2>9, <2>10
    <2> QED
      BY <2>3, <2>10, <2>11, <2>12 DEF OutcomeOK, HasFailed
  <1>11. ASSUME ReturnUnsettled(w) PROVE y.outcome = "none"
    BY <1>0, <1>3, <1>11 DEF ReturnUnsettled, Idle
  <1>12. x.pc # "idle" => x.outcome = "none"
    BY <1>2 DEF OutcomeOK
  <1>13. ASSUME BeginFailure(w), x.pc # "idle" PROVE y.outcome = "none"
    BY <1>0, <1>2, <1>3, <1>12, <1>13 DEF BeginFailure, WorkerState
  <1>14. ASSUME NEW d \in Document, List(w, d) PROVE y.outcome = "none"
    BY <1>0, <1>3, <1>14 DEF List, Idle
  <1>15. ASSUME Get(w) \/ PrepareClaims(w) \/ StartAttempt(w) \/ GenerateSucceeds(w)
         PROVE  y.outcome = "none"
    <2>1. x.pc # "idle"
      BY <1>2, <1>15 DEF Get, PrepareClaims, StartAttempt, GenerateSucceeds
    <2> QED
      BY <1>0, <1>2, <1>3, <1>12, <1>15, <2>1
         DEF Get, PrepareClaims, StartAttempt, GenerateSucceeds, WorkerState
  <1>16. OutcomeOK(w, y)'
    <2>1. \/ PrepareUnchanged(w) \/ CompleteVersion(w) \/ RecordFailure(w) \/ ReturnUnsettled(w)
          \/ BeginFailure(w) /\ x.pc # "idle"
          \/ \E d \in Document : List(w, d)
          \/ Get(w) \/ PrepareClaims(w) \/ StartAttempt(w) \/ GenerateSucceeds(w)
      BY <1>2 DEF Proceed, Abandon, GetFails, PrepareBusy, PrepareFails, StartFails, GenerateFails,
           CompleteVersionUnacknowledged, CommitVersion, CompleteVersionFails,
           RecordFailureUnacknowledged, RecordFailureFails
    <2> QED
      BY <1>6, <1>8, <1>9, <1>10, <1>11, <1>13, <1>14, <1>15, <2>1
  <1> QED
    BY <1>1, <1>3, <1>16 DEF OutcomeOK, Completed, HasFailed

\* A completed run stays completed, and the pointer moves with a completion.
LEMMA PointerStep ==
  ASSUME IngestInv, ResultInv, [Next]_vars
  PROVE  CurrentIsExtracted'
  <1>0. /\ runs \in [Run -> RunRow] /\ current \in [Document -> Version \cup {Null}]
    BY DEF IngestInv, TypeOK, LeaseTypeOK
  <1>1. \A r \in Run : runs[r].state = "completed" => runs'[r].state = "completed"
    BY RowsStay DEF Extends
  <1>2. \A v \in Version, c \in Config : RunOf(v, c) \in Run
    BY RunAssumption DEF RunOf
  <1>3. \A d \in Document : current[d] # Null =>
          /\ current[d] \in Version /\ DocumentOf(current[d]) = d
          /\ \E c \in Config : runs[RunOf(current[d], c)].state = "completed"
    BY <1>0 DEF ResultInv, CurrentIsExtracted, Completed
  <1> SUFFICES ASSUME NEW d \in Document, NEW u, u = current'[d], u # Null
               PROVE  DocumentOf(u) = d /\ \E c \in Config : runs'[RunOf(u, c)].state = "completed"
    BY DEF CurrentIsExtracted, Completed
  <1>4. ASSUME u = current[d]
        PROVE  DocumentOf(u) = d /\ \E c \in Config : runs'[RunOf(u, c)].state = "completed"
    <2>1. u \in Version /\ DocumentOf(u) = d /\ \E c \in Config : runs[RunOf(u, c)].state = "completed"
      BY <1>3, <1>4
    <2>2. PICK c \in Config : runs[RunOf(u, c)].state = "completed"
      BY <2>1
    <2>3. RunOf(u, c) \in Run
      BY <1>2, <2>1
    <2> QED
      BY <1>1, <2>1, <2>2, <2>3
  <1>5. ASSUME NEW w \in Worker, CommitVersion(w)
        PROVE  DocumentOf(u) = d /\ \E c \in Config : runs'[RunOf(u, c)].state = "completed"
    <2>1. PICK v : v = worker[w].version
      OBVIOUS
    <2>2. PICK r : r = Working(w)
      OBVIOUS
    <2>3. /\ Complete(r, worker[w].id, worker[w].stamp, worker[w].id)
          /\ worker[w].pc = "completing"
          /\ current' = [current EXCEPT ![DocumentOf(v)] = v]
      BY <1>5, <2>1, <2>2 DEF CommitVersion
    <2>4. r \in Run /\ v \in Version /\ Configured[w] \in Config /\ r = RunOf(v, Configured[w])
      BY <2>1, <2>2, <2>3, OwnedRun, ConfigAssumption DEF Complete, Working
    <2>5. runs'[r].state = "completed"
      BY <1>0, <2>3, <2>4 DEF Complete, RunRow
    <2>6. CASE d = DocumentOf(v)
      <3>1. u = v
        BY <1>0, <2>3, <2>6
      <3> QED
        BY <2>4, <2>5, <2>6, <3>1
    <2>7. CASE d # DocumentOf(v)
      BY <1>0, <1>4, <2>3, <2>7
    <2> QED
      BY <2>6, <2>7
  <1>6. \/ UNCHANGED current
        \/ \E w \in Worker : CommitVersion(w)
    BY DEF Next, vars, Tick, Edit, Proceed, Abandon, List, Get, GetFails, PrepareClaims, PrepareBusy,
         PrepareUnchanged, PrepareFails, StartAttempt, StartFails, GenerateSucceeds, GenerateFails,
         CompleteVersion, CompleteVersionUnacknowledged, CompleteVersionFails, RecordFailure,
         RecordFailureUnacknowledged, RecordFailureFails, CommitFailure, stored
  <1> QED
    BY <1>4, <1>5, <1>6

LEMMA ResultStep ==
  ASSUME IngestInv, ResultInv, [Next]_vars
  PROVE  ResultInv'
  <1>1. IdsUnique'
    BY StepInv, IdsStayUnique DEF IngestInv, ResultInv
  <1>2. worker \in [Worker -> WorkerState] /\ \A v \in Worker : OutcomeOK(v, worker[v])
    BY DEF IngestInv, TypeOK, ResultInv
  <1>3. ASSUME NEW v \in Worker, worker'[v] = worker[v] PROVE OutcomeOK(v, worker[v])'
    <2>1. PICK x \in WorkerState : x = worker[v] /\ OutcomeOK(v, x)
      BY <1>2
    <2>2. OutcomeOK(v, x)'
      BY <2>1, OutcomeStays
    <2>3. x = worker'[v]
      BY <1>3, <2>1
    <2> QED
      BY <2>2, <2>3 DEF OutcomeOK, Completed, HasFailed
  <1>4. ASSUME NEW w \in Worker, Proceed(w) \/ Abandon(w), NEW v \in Worker
        PROVE  OutcomeOK(v, worker[v])'
    <2>1. OutcomeOK(w, worker[w])' /\ \A u \in Worker \ {w} : worker'[u] = worker[u]
      BY <1>4, OutcomeStep
    <2>2. CASE v # w
      BY <1>3, <2>1, <2>2
    <2> QED
      BY <2>1, <2>2
  <1>5. CASE Tick \/ (\E d \in Document : Edit(d)) \/ UNCHANGED vars
    <2>1. worker' = worker
      BY <1>5 DEF Tick, Edit, vars
    <2>2. \A v \in Worker : OutcomeOK(v, worker[v])'
      BY <1>3, <2>1
    <2> QED
      BY <1>1, <2>2, PointerStep DEF ResultInv
  <1>6. ASSUME NEW w \in Worker, Proceed(w) \/ Abandon(w) PROVE ResultInv'
    <2>1. \A v \in Worker : OutcomeOK(v, worker[v])'
      BY <1>4, <1>6
    <2> QED
      BY <1>1, <2>1, PointerStep DEF ResultInv
  <1> QED
    BY <1>5, <1>6 DEF Next

LEMMA ResultsHold == Spec => []ResultInv
  <1>1. Init => ResultInv
    <2> SUFFICES ASSUME Init PROVE ResultInv
      OBVIOUS
    <2>1. IdsUnique
      BY DEF Init, LeaseInit, IdsUnique
    <2>2. \A w \in Worker : OutcomeOK(w, worker[w])
      BY DEF Init, Idle, OutcomeOK
    <2>3. CurrentIsExtracted
      BY DEF Init, CurrentIsExtracted
    <2> QED
      BY <2>1, <2>2, <2>3 DEF ResultInv
  <1>2. IngestInv /\ ResultInv /\ [Next]_vars => ResultInv'
    BY ResultStep
  <1> QED
    BY <1>1, <1>2, InductiveInv, PTL DEF Spec

\* What a process reports of a document is in the database, then and later,
\* whoever claims, completes or fails what else.
THEOREM OutcomesAreDurable == Spec => []OutcomeIsDurable
  <1>1. IngestInv /\ ResultInv => OutcomeIsDurable
    <2> SUFFICES ASSUME IngestInv, ResultInv, NEW w \in Worker
                 PROVE  /\ worker[w].outcome = "completed" =>
                             Completed(Working(w)) /\ runs[Working(w)].digest = worker[w].id
                        /\ worker[w].outcome = "unchanged" => Completed(Working(w))
                        /\ worker[w].outcome = "failed" => OwnRow(w).state = "failed"
      BY DEF OutcomeIsDurable
    <2>1. OutcomeOK(w, worker[w])
      BY DEF ResultInv
    <2>2. ASSUME worker[w].outcome = "failed" PROVE OwnRow(w).state = "failed"
      <3> DEFINE h == attempts[Working(w)]
      <3>1. Working(w) \in Run /\ HasFailed(Working(w), worker[w].id)
        BY <2>1, <2>2, WorkingRun DEF OutcomeOK, Working
      <3>2. PICK i \in DOMAIN h : h[i].id = worker[w].id /\ h[i].state = "failed"
        BY <3>1 DEF HasFailed
      <3>3. \A j \in DOMAIN h : h[j].id = worker[w].id => h[j] = h[i]
        BY <3>1, <3>2 DEF ResultInv, IdsUnique
      <3>4. OwnRow(w) = CHOOSE a \in {h[j] : j \in DOMAIN h} : a.id = worker[w].id
        BY DEF OwnRow
      <3> HIDE DEF h
      <3>5. OwnRow(w) = h[i]
        BY <3>2, <3>3, <3>4
      <3> QED
        BY <3>2, <3>5
    <2> QED
      BY <2>1, <2>2 DEF OutcomeOK, Working
  <1> QED
    BY <1>1, InductiveInv, ResultsHold, PTL

\* The current version of a document is one of its own, completely extracted.
THEOREM CurrentStaysExtracted == Spec => []CurrentIsExtracted
  <1>1. ResultInv => CurrentIsExtracted
    BY DEF ResultInv
  <1> QED
    BY <1>1, ResultsHold, PTL
=============================================================================

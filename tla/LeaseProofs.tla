---------------------------- MODULE LeaseProofs ----------------------------
(***************************************************************************)
(* The lease protocol is correct for every set of runs, callers, times and *)
(* lease durations: the invariants TLC checks of Lease are together        *)
(* inductive, and a history is never rewritten.                            *)
(***************************************************************************)
EXTENDS Lease, SequenceTheorems, TLAPS

-----------------------------------------------------------------------------
(* What the transactions do to one history.                                *)

LEMMA ClaimedAttempt ==
  ASSUME NEW id \in AttemptId, NEW c \in Time
  PROVE  /\ NewAttempt(id, c) \in AttemptRow
         /\ NewAttempt(id, c).claimedAt = c
         /\ NewAttempt(id, c).leaseExpiresAt = c + LeaseDuration
         /\ NewAttempt(id, c).state = "active"
         /\ NewAttempt(id, c).terminalAt = Null
  BY TimeAssumption, LeaseAssumption DEF NewAttempt, AttemptRow

LEMMA ExpiredAttempt ==
  ASSUME NEW a \in AttemptRow
  PROVE  /\ Expired(a) \in AttemptRow
         /\ Expired(a).claimedAt = a.claimedAt
         /\ Expired(a).leaseExpiresAt = a.leaseExpiresAt
         /\ a.state = "active" => /\ Expired(a).state = "expired"
                                  /\ Expired(a).terminalAt = a.leaseExpiresAt
         /\ a.state # "active" => Expired(a) = a
  BY DEF Expired, AttemptRow

LEMMA FinishedAttempt ==
  ASSUME NEW a \in AttemptRow, NEW t \in Time, NEW code \in FailureCode \cup {Null},
         NEW state \in {"completed", "failed"}
  PROVE  /\ Finished(a, state, t, code) \in AttemptRow
         /\ Finished(a, state, t, code).claimedAt = a.claimedAt
         /\ Finished(a, state, t, code).leaseExpiresAt = a.leaseExpiresAt
         /\ Finished(a, state, t, code).state = state
         /\ Finished(a, state, t, code).terminalAt = t
  BY TimeAssumption DEF Finished, AttemptRow

LEMMA ClaimHistory ==
  ASSUME NEW h \in Seq(AttemptRow), NEW e \in AttemptRow
  PROVE  /\ Append(Expire(h), e) \in Seq(AttemptRow)
         /\ Len(Append(Expire(h), e)) = Len(h) + 1
         /\ Append(Expire(h), e)[Len(h) + 1] = e
         /\ \A i \in 1..Len(h) : Append(Expire(h), e)[i] = Expired(h[i])
  <1>1. /\ Len(h) \in Nat
        /\ DOMAIN h = 1..Len(h)
        /\ \A i \in 1..Len(h) : h[i] \in AttemptRow
    BY LenProperties, ElementOfSeq
  <1>2. \A i \in 1..Len(h) : Expired(h[i]) \in AttemptRow
    BY <1>1, ExpiredAttempt
  <1>3. Expire(h) = [i \in 1..Len(h) |-> Expired(h[i])]
    BY <1>1 DEF Expire
  <1>4. /\ Expire(h) \in Seq(AttemptRow)
        /\ Len(Expire(h)) = Len(h)
        /\ \A i \in 1..Len(h) : Expire(h)[i] = Expired(h[i])
    BY <1>1, <1>2, <1>3, IsASeq
  <1>5. QED
    BY <1>4, AppendProperties

LEMMA FinishHistory ==
  ASSUME NEW h \in Seq(AttemptRow), h # <<>>, NEW e \in AttemptRow
  PROVE  /\ [h EXCEPT ![Len(h)] = e] \in Seq(AttemptRow)
         /\ Len([h EXCEPT ![Len(h)] = e]) = Len(h)
         /\ [h EXCEPT ![Len(h)] = e][Len(h)] = e
         /\ \A i \in 1..Len(h) : i # Len(h) => [h EXCEPT ![Len(h)] = e][i] = h[i]
  BY EmptySeq, LenProperties, ExceptSeq

-----------------------------------------------------------------------------
(* The inductive invariant, one run at a time.  The intervals of a history *)
(* are disjoint because each new claim waits for the end of the latest one *)
(* (Reclaimable), which is after the ends of all the others: that argument *)
(* needs the order inside each attempt, the agreement of the run row with  *)
(* the latest attempt, and the fact that the others have ended.            *)

AttemptOK(q, a) ==
  /\ q.recordedAt <= a.claimedAt
  /\ a.claimedAt < a.leaseExpiresAt
  /\ a.state = "active" <=> a.terminalAt = Null
  /\ a.state \in {"completed", "failed"} =>
       a.claimedAt <= a.terminalAt /\ a.terminalAt < a.leaseExpiresAt
  /\ a.state = "expired" => a.terminalAt = a.leaseExpiresAt

RowAgrees(q, h) ==
  /\ q.state = "absent" <=> h = <<>>
  /\ q.state # "absent" => h[Len(h)].state = q.state
  /\ q.state = "completed" => q.completedAt = h[Len(h)].terminalAt /\ q.digest \in Digest
  /\ q.state # "completed" => q.completedAt = Null /\ q.digest = Null

HistoryOK(q, h) ==
  /\ \A i \in 1..Len(h) : AttemptOK(q, h[i])
  /\ \A i \in 1..Len(h) : i < Len(h) => h[i].state \in {"failed", "expired"}
  /\ \A i, j \in 1..Len(h) : i < j => h[i].terminalAt <= h[j].claimedAt

RunInv(q, h) == RowAgrees(q, h) /\ HistoryOK(q, h)

LeaseInv == LeaseTypeOK /\ \A r \in Run : RunInv(runs[r], attempts[r])

LEMMA LeaseInvImplies ==
  LeaseInv => /\ LeaseTypeOK /\ RunAgreesWithLatest /\ OnlyLatestIsLive
              /\ LeasesDisjoint /\ TerminalInsideLease
  <1> SUFFICES ASSUME LeaseInv PROVE  /\ LeaseTypeOK /\ RunAgreesWithLatest /\ OnlyLatestIsLive
                                      /\ LeasesDisjoint /\ TerminalInsideLease
    OBVIOUS
  <1>1. \A r \in Run : DOMAIN attempts[r] = 1..Len(attempts[r])
    BY LenProperties DEF LeaseInv, LeaseTypeOK
  <1>2. LeaseTypeOK /\ RunAgreesWithLatest
    BY DEF LeaseInv, RunInv, RowAgrees, RunAgreesWithLatest, Latest
  <1>3. OnlyLatestIsLive /\ LeasesDisjoint
    BY <1>1 DEF LeaseInv, RunInv, HistoryOK, OnlyLatestIsLive, LeasesDisjoint
  <1>4. TerminalInsideLease
    BY <1>1 DEF LeaseInv, RunInv, HistoryOK, AttemptOK, TerminalInsideLease
  <1>5. QED
    BY <1>2, <1>3, <1>4

LEMMA LeaseInitInv == LeaseInit => LeaseInv
  <1> SUFFICES ASSUME LeaseInit PROVE LeaseInv
    OBVIOUS
  <1>1. LeaseTypeOK
    BY EmptySeq DEF LeaseInit, LeaseTypeOK, AbsentRun, RunRow
  <1>2. \A r \in Run : RunInv(runs[r], attempts[r])
    <2> TAKE r \in Run
    <2>1. runs[r] = AbsentRun /\ attempts[r] = <<>> /\ 1..Len(<<>>) = {}
      BY EmptySeq DEF LeaseInit
    <2>2. RowAgrees(AbsentRun, <<>>)
      BY DEF RowAgrees, AbsentRun
    <2>3. HistoryOK(AbsentRun, <<>>)
      BY <2>1 DEF HistoryOK
    <2>4. QED
      BY <2>1, <2>2, <2>3 DEF RunInv
  <1>3. QED
    BY <1>1, <1>2 DEF LeaseInv

LEMMA ClaimKeepsRun ==
  ASSUME NEW q \in RunRow, NEW h \in Seq(AttemptRow), RunInv(q, h),
         NEW id \in AttemptId, NEW t \in Time, NEW c \in Time, t <= c,
         \/ q.state = "absent"
         \/ /\ q.state \in {"active", "failed"}
            /\ q.recordedAt = t
            /\ \/ h[Len(h)].state = "active" /\ c >= h[Len(h)].leaseExpiresAt
               \/ h[Len(h)].state \in {"failed", "expired"} /\ c >= h[Len(h)].terminalAt,
         NEW q2 \in RunRow, q2.state = "active", q2.recordedAt = t,
         q2.completedAt = Null, q2.digest = Null
  PROVE  RunInv(q2, Append(Expire(h), NewAttempt(id, c)))
  <1> DEFINE n == Len(h)
             e == NewAttempt(id, c)
             g == Append(Expire(h), e)
  <1>1. /\ n \in Nat
        /\ Len(g) = n + 1
        /\ g[n + 1] = e
        /\ \A i \in 1..n : g[i] = Expired(h[i]) /\ h[i] \in AttemptRow
    BY ClaimHistory, ClaimedAttempt, LenProperties, ElementOfSeq
  <1>2. /\ e.claimedAt = c
        /\ e.leaseExpiresAt = c + LeaseDuration
        /\ e.state = "active"
        /\ e.terminalAt = Null
    BY ClaimedAttempt
  <1> HIDE DEF n, e, g
  <1>3. g # <<>>
    BY <1>1
  <1>4. RowAgrees(q2, g)
    BY <1>1, <1>2, <1>3 DEF RowAgrees
  <1>5. \A i \in 1..n : /\ g[i].state \in {"failed", "expired"}
                        /\ g[i].claimedAt = h[i].claimedAt
                        /\ g[i].terminalAt \in Nat
                        /\ g[i].terminalAt <= c
                        /\ AttemptOK(q2, g[i])
                        /\ i < n => g[i] = h[i]
    <2> TAKE i \in 1..n
    <2>1. /\ g[i] = Expired(h[i])
          /\ h[i] \in AttemptRow /\ h[n] \in AttemptRow
          /\ AttemptOK(q, h[i]) /\ AttemptOK(q, h[n])
          /\ i < n => h[i].state \in {"failed", "expired"} /\ h[i].terminalAt <= h[n].claimedAt
          /\ q.state # "absent"
          /\ h[n].state = q.state
      BY <1>1, EmptySeq DEF RunInv, RowAgrees, HistoryOK, n
    <2>2. /\ g[i] \in AttemptRow
          /\ g[i].claimedAt = h[i].claimedAt
          /\ g[i].leaseExpiresAt = h[i].leaseExpiresAt
          /\ h[i].state = "active" => g[i].state = "expired" /\ g[i].terminalAt = h[i].leaseExpiresAt
          /\ h[i].state # "active" => g[i] = h[i]
      BY <2>1, ExpiredAttempt
    <2>3. /\ h[n].state = "active" => c >= h[n].leaseExpiresAt
          /\ h[n].state # "active" => h[n].state = "failed" /\ c >= h[n].terminalAt
          /\ q2.recordedAt = q.recordedAt
      BY <2>1 DEF n
    <2>4. /\ h[i].claimedAt \in Nat /\ h[i].leaseExpiresAt \in Nat
          /\ h[n].claimedAt \in Nat /\ h[n].leaseExpiresAt \in Nat
          /\ h[i].state # "active" => h[i].terminalAt \in Nat
          /\ h[n].state # "active" => h[n].terminalAt \in Nat
          /\ c \in Nat
      BY <2>1, TimeAssumption DEF AttemptRow, AttemptOK
    <2>5. i < n => h[i].state # "active" /\ h[i].terminalAt <= c
      BY <2>1, <2>3, <2>4 DEF AttemptOK
    <2>6. CASE i < n
      BY <2>1, <2>2, <2>3, <2>4, <2>5, <2>6 DEF AttemptOK
    <2>7. CASE i = n
      BY <2>1, <2>2, <2>3, <2>4, <2>7, NullAssumption DEF AttemptOK
    <2>8. QED
      BY <1>1, <2>6, <2>7
  <1>6. AttemptOK(q2, e)
    BY <1>2, TimeAssumption, LeaseAssumption DEF AttemptOK
  <1>7. HistoryOK(q2, g)
    <2>1. \A i \in 1..(n + 1) : AttemptOK(q2, g[i])
      BY <1>1, <1>5, <1>6
    <2>2. \A i \in 1..(n + 1) : i < n + 1 => g[i].state \in {"failed", "expired"}
      BY <1>1, <1>5
    <2>3. \A i, j \in 1..(n + 1) : i < j => g[i].terminalAt <= g[j].claimedAt
      <3> TAKE i, j \in 1..(n + 1)
      <3> HAVE i < j
      <3>1. CASE j = n + 1
        BY <1>1, <1>2, <1>5, <3>1
      <3>2. CASE j # n + 1
        <4>1. i \in 1..n /\ j \in 1..n /\ i < n
          BY <1>1, <3>2
        <4>2. h[i].terminalAt <= h[j].claimedAt
          BY <4>1 DEF RunInv, HistoryOK, n
        <4>3. QED
          BY <1>5, <4>1, <4>2
      <3>3. QED
        BY <3>1, <3>2
    <2>4. QED
      BY <1>1, <2>1, <2>2, <2>3 DEF HistoryOK
  <1>8. QED
    BY <1>4, <1>7 DEF RunInv, g, e

LEMMA FinishKeepsRun ==
  ASSUME NEW q \in RunRow, NEW h \in Seq(AttemptRow), RunInv(q, h), h # <<>>,
         NEW t \in Time, NEW code \in FailureCode \cup {Null},
         NEW state \in {"completed", "failed"},
         h[Len(h)].claimedAt <= t, t < h[Len(h)].leaseExpiresAt,
         NEW q2 \in RunRow, q2.state = state, q2.recordedAt = q.recordedAt,
         state = "completed" => q2.completedAt = t /\ q2.digest \in Digest,
         state = "failed" => q2.completedAt = Null /\ q2.digest = Null
  PROVE  RunInv(q2, [h EXCEPT ![Len(h)] = Finished(h[Len(h)], state, t, code)])
  <1> DEFINE n == Len(h)
             e == Finished(h[n], state, t, code)
             g == [h EXCEPT ![n] = e]
  <1>1. n \in Nat \ {0} /\ \A i \in 1..n : h[i] \in AttemptRow
    BY EmptySeq, ElementOfSeq
  <1>2. /\ e \in AttemptRow
        /\ e.claimedAt = h[n].claimedAt
        /\ e.leaseExpiresAt = h[n].leaseExpiresAt
        /\ e.state = state
        /\ e.terminalAt = t
    BY <1>1, FinishedAttempt
  <1>3. /\ g \in Seq(AttemptRow)
        /\ Len(g) = n
        /\ g[n] = e
        /\ \A i \in 1..n : i # n => g[i] = h[i]
    BY <1>2, FinishHistory
  <1>4. h[n].claimedAt <= t /\ t < h[n].leaseExpiresAt
    OBVIOUS
  <1>5. RunInv(q, h)
    OBVIOUS
  <1> HIDE DEF e, g
  <1>6. RowAgrees(q2, g)
    BY <1>1, <1>2, <1>3 DEF RowAgrees
  <1>7. \A i \in 1..n : AttemptOK(q2, g[i])
    <2>1. AttemptOK(q2, e)
      <3>1. AttemptOK(q, h[n])
        BY <1>1, <1>5 DEF RunInv, HistoryOK
      <3>2. t \in Nat /\ t # Null
        BY TimeAssumption, NullAssumption
      <3>3. h[n] \in AttemptRow
        BY <1>1
      <3>4. h[n].claimedAt \in Nat /\ h[n].leaseExpiresAt \in Nat
        BY <3>3, TimeAssumption DEF AttemptRow
      <3>5. QED
        BY <1>2, <1>4, <3>1, <3>2, <3>4 DEF AttemptOK
    <2>2. \A i \in 1..n : AttemptOK(q, h[i])
      BY <1>5 DEF RunInv, HistoryOK
    <2>3. QED
      BY <1>3, <2>1, <2>2 DEF AttemptOK
  <1>8. \A i \in 1..n : i < n => g[i].state \in {"failed", "expired"}
    BY <1>1, <1>3, <1>5 DEF RunInv, HistoryOK
  <1>9. \A i, j \in 1..n : i < j => g[i].terminalAt <= g[j].claimedAt
    BY <1>1, <1>2, <1>3, <1>5 DEF RunInv, HistoryOK
  <1>10. QED
    BY <1>3, <1>6, <1>7, <1>8, <1>9 DEF RunInv, HistoryOK, g, e

-----------------------------------------------------------------------------
(* Every transaction keeps the invariant and the recorded history.         *)

\* One run's part of HistoryIsImmutable.
Extends(q, h, q2, h2) ==
  /\ Len(h) <= Len(h2)
  /\ \A i \in DOMAIN h : h[i].state # "active" => h2[i] = h[i]
  /\ q.state = "completed" => q2 = q /\ h2 = h

\* A step that replaces one run's row and history by legal ones is legal.
LEMMA OneRunChanges ==
  ASSUME LeaseInv, NEW r \in Run, NEW q2 \in RunRow, NEW h2 \in Seq(AttemptRow),
         RunInv(q2, h2), Extends(runs[r], attempts[r], q2, h2),
         runs' = [runs EXCEPT ![r] = q2],
         attempts' = [attempts EXCEPT ![r] = h2]
  PROVE  /\ LeaseInv'
         /\ \A s \in Run : Extends(runs[s], attempts[s], runs'[s], attempts'[s])
  <1>1. LeaseTypeOK'
    BY DEF LeaseInv, LeaseTypeOK
  <1>2. \A s \in Run : \/ s = r /\ runs'[s] = q2 /\ attempts'[s] = h2
                       \/ runs'[s] = runs[s] /\ attempts'[s] = attempts[s]
    BY DEF LeaseInv, LeaseTypeOK
  <1>3. \A s \in Run : RunInv(runs[s], attempts[s])'
    BY <1>2 DEF LeaseInv
  <1>4. \A s \in Run : attempts[s] \in Seq(AttemptRow)
    BY DEF LeaseInv, LeaseTypeOK
  <1>5. \A s \in Run : Extends(runs[s], attempts[s], runs[s], attempts[s])
    BY <1>4, LenProperties DEF Extends
  <1>6. QED
    BY <1>1, <1>2, <1>3, <1>5 DEF LeaseInv

LEMMA ClaimStep ==
  ASSUME LeaseInv, NEW r \in Run, NEW m \in Mode, NEW t \in Time,
         NEW id \in AttemptId, NEW c \in Time, Claim(r, m, t, id, c)
  PROVE  /\ LeaseInv'
         /\ \A s \in Run : Extends(runs[s], attempts[s], runs'[s], attempts'[s])
  <1> DEFINE q2 == [runs[r] EXCEPT !.state = "active", !.mode = m, !.recordedAt = t]
             h2 == Append(Expire(attempts[r]), NewAttempt(id, c))
  <1>1. /\ runs[r] \in RunRow
        /\ attempts[r] \in Seq(AttemptRow)
        /\ RunInv(runs[r], attempts[r])
    BY DEF LeaseInv, LeaseTypeOK
  <1>2. /\ runs[r].state \in {"absent", "active", "failed"}
        /\ q2 \in RunRow /\ q2.state = "active" /\ q2.recordedAt = t
        /\ q2.completedAt = runs[r].completedAt /\ q2.digest = runs[r].digest
    BY <1>1 DEF Claim, AnswersClaimed, RunRow
  <1>3. q2.completedAt = Null /\ q2.digest = Null
    BY <1>1, <1>2 DEF RunInv, RowAgrees
  <1>4. runs' = [runs EXCEPT ![r] = q2] /\ attempts' = [attempts EXCEPT ![r] = h2]
    BY DEF Claim, LeaseInv, LeaseTypeOK
  <1>5. h2 \in Seq(AttemptRow)
    BY <1>1, ClaimHistory, ClaimedAttempt
  <1>6. /\ t <= c
        /\ \/ runs[r].state = "absent"
           \/ /\ runs[r].state \in {"active", "failed"}
              /\ runs[r].recordedAt = t
              /\ \/ Latest(r).state = "active" /\ c >= Latest(r).leaseExpiresAt
                 \/ Latest(r).state \in {"failed", "expired"} /\ c >= Latest(r).terminalAt
    BY TimeAssumption DEF Claim, AnswersClaimed, SameRunInput, Reclaimable
  <1>7. RunInv(q2, h2)
    <2> HIDE DEF q2
    <2> QED
      BY <1>1, <1>2, <1>3, <1>6, ClaimKeepsRun DEF Latest
  <1>8. Extends(runs[r], attempts[r], q2, h2)
    <2>1. /\ Len(attempts[r]) \in Nat
          /\ DOMAIN attempts[r] = 1..Len(attempts[r])
          /\ Len(h2) = Len(attempts[r]) + 1
          /\ \A i \in 1..Len(attempts[r]) : h2[i] = Expired(attempts[r][i])
      BY <1>1, ClaimHistory, ClaimedAttempt, LenProperties
    <2>2. \A i \in 1..Len(attempts[r]) :
            attempts[r][i].state # "active" => h2[i] = attempts[r][i]
      BY <2>1 DEF Expired
    <2> HIDE DEF h2, q2
    <2>3. QED
      BY <1>2, <2>1, <2>2 DEF Extends
  <1>9. QED
    <2> HIDE DEF q2, h2
    <2> QED
      BY <1>2, <1>4, <1>5, <1>7, <1>8, OneRunChanges

LEMMA FinishStep ==
  ASSUME LeaseInv, NEW r \in Run, NEW id \in AttemptId, NEW t \in Time,
         NEW code \in FailureCode \cup {Null}, NEW state \in {"completed", "failed"},
         ActivelyOwned(r, id, t), FinishLatest(r, state, t, code),
         NEW q2 \in RunRow, q2.state = state, q2.recordedAt = runs[r].recordedAt,
         state = "completed" => q2.completedAt = t /\ q2.digest \in Digest,
         state = "failed" => q2.completedAt = Null /\ q2.digest = Null,
         runs' = [runs EXCEPT ![r] = q2]
  PROVE  /\ LeaseInv'
         /\ \A s \in Run : Extends(runs[s], attempts[s], runs'[s], attempts'[s])
  <1> DEFINE h  == attempts[r]
             e  == Finished(h[Len(h)], state, t, code)
             h2 == [h EXCEPT ![Len(h)] = e]
  <1>1. /\ h \in Seq(AttemptRow)
        /\ RunInv(runs[r], h)
        /\ runs[r] \in RunRow
    BY DEF LeaseInv, LeaseTypeOK
  <1>2. /\ runs[r].state = "active"
        /\ h[Len(h)].state = "active"
        /\ h[Len(h)].claimedAt <= t
        /\ t < h[Len(h)].leaseExpiresAt
    BY DEF ActivelyOwned, Latest
  <1>3. /\ h # <<>>
        /\ Len(h) \in Nat \ {0}
        /\ DOMAIN h = 1..Len(h)
        /\ h[Len(h)] \in AttemptRow
    BY <1>1, <1>2, EmptySeq, LenProperties, ElementOfSeq DEF RunInv, RowAgrees
  <1>4. /\ e \in AttemptRow
        /\ h2 \in Seq(AttemptRow)
        /\ Len(h2) = Len(h)
        /\ \A i \in 1..Len(h) : i # Len(h) => h2[i] = h[i]
    BY <1>1, <1>3, FinishedAttempt, FinishHistory
  <1>5. attempts' = [attempts EXCEPT ![r] = h2]
    BY DEF FinishLatest, Latest, LeaseInv, LeaseTypeOK
  <1>6. RunInv(q2, h2)
    BY <1>1, <1>2, <1>3, FinishKeepsRun
  <1> HIDE DEF h2, e
  <1>7. Extends(runs[r], h, q2, h2)
    BY <1>2, <1>3, <1>4 DEF Extends
  <1>8. QED
    BY <1>4, <1>5, <1>6, <1>7, OneRunChanges

LEMMA FailStep ==
  ASSUME LeaseInv, NEW r \in Run, NEW id \in AttemptId, NEW t \in Time,
         NEW code \in FailureCode, Fail(r, id, t, code)
  PROVE  /\ LeaseInv'
         /\ \A s \in Run : Extends(runs[s], attempts[s], runs'[s], attempts'[s])
  <1> DEFINE q2 == [runs[r] EXCEPT !.state = "failed"]
  <1>1. runs[r] \in RunRow /\ RowAgrees(runs[r], attempts[r])
    BY DEF LeaseInv, LeaseTypeOK, RunInv
  <1>2. runs[r].state = "active" /\ ActivelyOwned(r, id, t) /\ FinishLatest(r, "failed", t, code)
    BY DEF Fail, ActivelyOwned
  <1>3. /\ q2 \in RunRow /\ q2.state = "failed" /\ q2.recordedAt = runs[r].recordedAt
        /\ q2.completedAt = Null /\ q2.digest = Null
    BY <1>1, <1>2 DEF RunRow, RowAgrees
  <1>4. runs' = [runs EXCEPT ![r] = q2]
    BY DEF Fail
  <1> HIDE DEF q2
  <1>5. QED
    BY <1>2, <1>3, <1>4, FinishStep

LEMMA CompleteStep ==
  ASSUME LeaseInv, NEW r \in Run, NEW id \in AttemptId, NEW t \in Time,
         NEW digest \in Digest, Complete(r, id, t, digest)
  PROVE  /\ LeaseInv'
         /\ \A s \in Run : Extends(runs[s], attempts[s], runs'[s], attempts'[s])
  <1> DEFINE q2 == [runs[r] EXCEPT !.state = "completed", !.completedAt = t, !.digest = digest]
  <1>1. runs[r] \in RunRow
    BY DEF LeaseInv, LeaseTypeOK
  <1>2. ActivelyOwned(r, id, t) /\ FinishLatest(r, "completed", t, Null)
    BY DEF Complete
  <1>3. /\ q2 \in RunRow /\ q2.state = "completed" /\ q2.recordedAt = runs[r].recordedAt
        /\ q2.completedAt = t /\ q2.digest \in Digest
    BY <1>1 DEF RunRow
  <1>4. runs' = [runs EXCEPT ![r] = q2]
    BY DEF Complete
  <1> HIDE DEF q2
  <1>5. QED
    BY <1>2, <1>3, <1>4, FinishStep

LEMMA LeaseStep ==
  ASSUME LeaseInv, [LeaseNext]_leaseVars
  PROVE  /\ LeaseInv'
         /\ LeaseNext => \A s \in Run : Extends(runs[s], attempts[s], runs'[s], attempts'[s])
  <1>1. CASE LeaseNext
    BY <1>1, ClaimStep, FailStep, CompleteStep DEF LeaseNext
  <1>2. CASE UNCHANGED leaseVars
    <2>1. LeaseInv'
      BY <1>2 DEF leaseVars, LeaseInv, LeaseTypeOK
    <2>2. QED
      BY <1>1, <2>1
  <1>3. QED
    BY <1>1, <1>2

-----------------------------------------------------------------------------
(* The theorems.                                                           *)

\* Run rows and attempt rows keep their types: a lease that a reader of the
\* tables sees is always a legal one.
THEOREM LeaseTypeCorrect == LeaseSpec => []LeaseTypeOK
  <1>1. LeaseInit => LeaseInv
    BY LeaseInitInv
  <1>2. LeaseInv /\ [LeaseNext]_leaseVars => LeaseInv'
    BY LeaseStep
  <1>3. LeaseInv => LeaseTypeOK
    BY DEF LeaseInv
  <1>4. QED
    BY <1>1, <1>2, <1>3, PTL DEF LeaseSpec

\* The run row and its latest attempt never disagree, although every handler
\* writes them in two statements.
THEOREM RunAndAttemptAgree == LeaseSpec => [](RunAgreesWithLatest)
  <1>1. LeaseInit => LeaseInv
    BY LeaseInitInv
  <1>2. LeaseInv /\ [LeaseNext]_leaseVars => LeaseInv'
    BY LeaseStep
  <1>3. LeaseInv => RunAgreesWithLatest
    BY LeaseInvImplies
  <1>4. QED
    BY <1>1, <1>2, <1>3, PTL DEF LeaseSpec

\* Whatever clocks the callers read, the leases of a derivation never overlap
\* and at most its latest attempt can still publish.
THEOREM LeaseSafe == LeaseSpec => [](OnlyLatestIsLive /\ LeasesDisjoint)
  <1>1. LeaseInit => LeaseInv
    BY LeaseInitInv
  <1>2. LeaseInv /\ [LeaseNext]_leaseVars => LeaseInv'
    BY LeaseStep
  <1>3. LeaseInv => OnlyLatestIsLive /\ LeasesDisjoint
    BY LeaseInvImplies
  <1>4. QED
    BY <1>1, <1>2, <1>3, PTL DEF LeaseSpec

\* Every attempt ends inside its lease or exactly where it expires.
THEOREM EndsInsideLease == LeaseSpec => [](TerminalInsideLease)
  <1>1. LeaseInit => LeaseInv
    BY LeaseInitInv
  <1>2. LeaseInv /\ [LeaseNext]_leaseVars => LeaseInv'
    BY LeaseStep
  <1>3. LeaseInv => TerminalInsideLease
    BY LeaseInvImplies
  <1>4. QED
    BY <1>1, <1>2, <1>3, PTL DEF LeaseSpec

\* Attempts that have ended and completed runs are never written again.
THEOREM HistoryNeverRewritten == LeaseSpec => HistoryIsImmutable
  <1>1. LeaseInit => LeaseInv
    BY LeaseInitInv
  <1>2. LeaseInv /\ [LeaseNext]_leaseVars => LeaseInv'
    BY LeaseStep
  <1>3. LeaseInv /\ [LeaseNext]_leaseVars =>
          [\A r \in Run :
             /\ Len(attempts[r]) <= Len(attempts'[r])
             /\ \A i \in DOMAIN attempts[r] :
                  attempts[r][i].state # "active" => attempts'[r][i] = attempts[r][i]
             /\ runs[r].state = "completed" => runs'[r] = runs[r] /\ attempts'[r] = attempts[r]
          ]_leaseVars
    BY LeaseStep DEF Extends
  <1>4. QED
    BY <1>1, <1>2, <1>3, PTL DEF LeaseSpec, HistoryIsImmutable

\* A transaction that has committed answers its own repetition: the claim is
\* resumed, the failure and the completion are recorded already.
THEOREM RepetitionsAreAnswered == LeaseSpec => LostAnswersAreRepeatable
  <1>1. LeaseInit => LeaseInv
    BY LeaseInitInv
  <1>2. LeaseInv /\ [LeaseNext]_leaseVars => LeaseInv'
    BY LeaseStep
  <1>3. ASSUME LeaseInv, NEW r \in Run, NEW id \in AttemptId, NEW t \in Time
        PROVE  /\ \A m \in Mode, recorded \in Time :
                    Claim(r, m, recorded, id, t) => AnswersResumed(r, m, recorded, id, t)'
               /\ \A code \in FailureCode : Fail(r, id, t, code) => FailureRecorded(r, id, t, code)'
               /\ \A digest \in Digest :
                    Complete(r, id, t, digest) => CompletionRecorded(r, id, t, digest)'
    <2>1. /\ runs \in [Run -> RunRow] /\ attempts \in [Run -> Seq(AttemptRow)]
          /\ attempts[r] \in Seq(AttemptRow) /\ RowAgrees(runs[r], attempts[r])
      BY <1>3 DEF LeaseInv, LeaseTypeOK, RunInv
    <2>2. ASSUME NEW m \in Mode, NEW recorded \in Time, Claim(r, m, recorded, id, t)
          PROVE  AnswersResumed(r, m, recorded, id, t)'
      <3> DEFINE h == Append(Expire(attempts[r]), NewAttempt(id, t))
      <3>1. attempts'[r] = h
        BY <2>1, <2>2 DEF Claim
      <3>2. h[Len(h)] = NewAttempt(id, t)
        BY <2>1, ClaimedAttempt, ClaimHistory
      <3>3. Latest(r)' = NewAttempt(id, t)
        BY <3>1, <3>2 DEF Latest
      <3>4. runs'[r].state = "active" /\ runs'[r].mode = m /\ runs'[r].recordedAt = recorded
        BY <2>1, <2>2 DEF Claim, RunRow
      <3> QED
        BY <3>3, <3>4 DEF AnswersResumed, SameRunInput, SameLeaseAttempt, NewAttempt
    <2>3. ASSUME NEW state \in {"completed", "failed"}, NEW code \in FailureCode \cup {Null},
                 FinishLatest(r, state, t, code), ActivelyOwned(r, id, t)
          PROVE  /\ Latest(r)'.state = state /\ Latest(r)'.id = id
                 /\ Latest(r)'.terminalAt = t /\ Latest(r)'.failureCode = code
      <3> DEFINE h == attempts[r]
      <3>1. h # <<>> /\ Latest(r).id = id
        BY <2>1, <2>3 DEF ActivelyOwned, RowAgrees
      <3>2. Len(h) \in 1..Len(h) /\ Latest(r) \in AttemptRow
        BY <2>1, <3>1, EmptySeq, LenProperties, ElementOfSeq DEF Latest
      <3> DEFINE e == Finished(Latest(r), state, t, code)
      <3>3. e \in AttemptRow
        BY <3>2, FinishedAttempt
      <3>4. attempts'[r] = [h EXCEPT ![Len(h)] = e]
        BY <2>1, <2>3 DEF FinishLatest
      <3>5. Latest(r)' = e
        BY <2>1, <3>1, <3>3, <3>4, FinishHistory DEF Latest
      <3> QED
        BY <3>1, <3>2, <3>5 DEF Finished, AttemptRow
    <2>4. ASSUME NEW code \in FailureCode, Fail(r, id, t, code)
          PROVE  FailureRecorded(r, id, t, code)'
      <3>1. runs'[r].state = "failed"
        BY <2>1, <2>4 DEF Fail, RunRow
      <3> QED
        BY <2>3, <2>4, <3>1 DEF Fail, FailureRecorded
    <2>5. ASSUME NEW digest \in Digest, Complete(r, id, t, digest)
          PROVE  CompletionRecorded(r, id, t, digest)'
      <3>1. runs'[r].state = "completed" /\ runs'[r].completedAt = t /\ runs'[r].digest = digest
        BY <2>1, <2>5 DEF Complete, RunRow
      <3> QED
        BY <2>3, <2>5, <3>1 DEF Complete, CompletionRecorded
    <2> QED
      BY <2>2, <2>4, <2>5
  <1>4. LeaseInv /\ [LeaseNext]_leaseVars =>
          [\A r \in Run, id \in AttemptId, t \in Time :
             /\ \A m \in Mode, recorded \in Time :
                  Claim(r, m, recorded, id, t) => AnswersResumed(r, m, recorded, id, t)'
             /\ \A code \in FailureCode : Fail(r, id, t, code) => FailureRecorded(r, id, t, code)'
             /\ \A digest \in Digest :
                  Complete(r, id, t, digest) => CompletionRecorded(r, id, t, digest)'
          ]_leaseVars
    BY <1>3
  <1>5. QED
    BY <1>1, <1>2, <1>4, PTL DEF LeaseSpec, LostAnswersAreRepeatable
=============================================================================

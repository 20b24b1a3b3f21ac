--------------------------- MODULE AuthorityProofs ----------------------------
(***************************************************************************)
(* Proofs about Authority, for any targets and IDs: the log keeps one      *)
(* chain per target, and a reviewer is final.                              *)
(***************************************************************************)
EXTENDS Authority, TLAPS

\* A stored row is a decision.
LEMMA StoredIsDecision ==
  ASSUME AuthorityTypeOK, NEW i \in Stored
  PROVE  i \in DecisionId /\ decisions[i] \in Decision
BY NullAssumption DEF AuthorityTypeOK, Stored

\* Appending keeps the type of the table.
LEMMA AppendKeepsType ==
  ASSUME AuthorityTypeOK, NEW i \in DecisionId, NEW d \in Decision, AppendRow(i, d)
  PROVE  AuthorityTypeOK'
BY DEF AuthorityTypeOK, AppendRow

\* What an append does to the rows: it adds one and leaves the others alone.
LEMMA AppendAddsOne ==
  ASSUME AuthorityTypeOK, NEW i \in DecisionId, NEW d \in Decision, AppendRow(i, d)
  PROVE  /\ i \notin Stored
         /\ Stored' = Stored \cup {i}
         /\ decisions'[i] = d
         /\ \A j \in Stored : decisions'[j] = decisions[j]
<1>1. d # Null
  BY NullAssumption
<1>2. /\ i \notin Stored
      /\ decisions'[i] = d
      /\ \A j \in Stored : decisions'[j] = decisions[j]
  BY DEF AuthorityTypeOK, AppendRow, Stored
<1>3. Stored' = Stored \cup {i}
  BY <1>1 DEF AuthorityTypeOK, AppendRow, Stored
<1> QED
  BY <1>2, <1>3

\* After an append the new decision is its target's effective one.
LEMMA AppendIsEffective ==
  ASSUME AuthorityTypeOK, SingleHistory,
         NEW i \in DecisionId, NEW d \in Decision, AppendRow(i, d)
  PROVE  /\ Effective(d.target)' = {i}
         /\ \A t \in Target : t # d.target => Effective(t)' = Effective(t)
<1>0. /\ i \notin Stored
      /\ Stored' = Stored \cup {i}
      /\ decisions'[i] = d
      /\ \A j \in Stored : decisions'[j] = decisions[j]
  BY AppendAddsOne
<1>1. Succeeds(d)
  BY DEF AppendRow
<1>2. d.target \in Target /\ d.supersedes \in DecisionId \cup {Null}
  BY DEF Decision
<1>3. \A j \in Stored : decisions[j].supersedes # i
  <2> SUFFICES ASSUME NEW j \in Stored, decisions[j].supersedes = i PROVE FALSE
    OBVIOUS
  <2>1. ~Initial(j)
    BY NullAssumption DEF Initial
  <2> QED
    BY <2>1, <1>0 DEF SingleHistory, OneChain
<1>4. d.supersedes # i
  BY <1>0, <1>1, NullAssumption DEF Succeeds, Effective
<1>5. Effective(d.target)' = {i}
  <2>1. i \in Effective(d.target)'
    BY <1>0, <1>3, <1>4 DEF Effective
  <2>2. ASSUME NEW k \in Effective(d.target)', k # i PROVE FALSE
    <3>1. /\ k \in Stored
          /\ decisions[k].target = d.target
          /\ \A j \in Stored : decisions[j].supersedes # k
          /\ d.supersedes # k
      BY <2>2, <1>0 DEF Effective
    <3>2. k \in Effective(d.target)
      BY <3>1 DEF Effective
    <3>3. d.supersedes \in Effective(d.target)
      BY <3>2, <1>1 DEF Succeeds
    <3>4. PICK e \in DecisionId : Effective(d.target) = {e}
      BY <3>1, <1>2 DEF SingleHistory, OneEffective
    <3> QED
      BY <3>1, <3>2, <3>3, <3>4
  <2> QED
    BY <2>1, <2>2
<1>6. ASSUME NEW t \in Target, t # d.target PROVE Effective(t)' = Effective(t)
  <2>1. \A k \in Stored : decisions[k].target = t => d.supersedes # k
    BY <1>1, <1>6, NullAssumption DEF Succeeds, Effective, Stored
  <2>2. ASSUME NEW k \in Effective(t) PROVE k \in Effective(t)'
    BY <2>1, <2>2, <1>0 DEF Effective
  <2>3. ASSUME NEW k \in Effective(t)' PROVE k \in Effective(t)
    <3>1. k \in Stored
      BY <2>3, <1>0, <1>6 DEF Effective
    <3> QED
      BY <3>1, <2>3, <1>0 DEF Effective
  <2> QED
    BY <2>2, <2>3
<1> QED
  BY <1>5, <1>6

\* Appending keeps one effective decision per decided target.
LEMMA AppendKeepsOneEffective ==
  ASSUME AuthorityTypeOK, SingleHistory,
         NEW i \in DecisionId, NEW d \in Decision, AppendRow(i, d)
  PROVE  OneEffective'
<1>1. /\ Effective(d.target)' = {i}
      /\ \A t \in Target : t # d.target => Effective(t)' = Effective(t)
  BY AppendIsEffective
<1>2. /\ Stored' = Stored \cup {i}
      /\ decisions'[i] = d
      /\ \A j \in Stored : decisions'[j] = decisions[j]
  BY AppendAddsOne
<1> SUFFICES ASSUME NEW t \in Target, NEW k \in Stored', decisions'[k].target = t
             PROVE  \E j \in DecisionId : Effective(t)' = {j}
  BY DEF OneEffective
<1>3. CASE t = d.target
  BY <1>1, <1>3
<1>4. CASE t # d.target
  <2>1. k \in Stored /\ decisions[k].target = t
    BY <1>2, <1>4
  <2>2. \E j \in DecisionId : Effective(t) = {j}
    BY <2>1 DEF SingleHistory, OneEffective
  <2> QED
    BY <2>2, <1>1, <1>4
<1> QED
  BY <1>3, <1>4

\* Appending neither branches a chain nor leaves its target.
LEMMA AppendKeepsOneChain ==
  ASSUME AuthorityTypeOK, SingleHistory,
         NEW i \in DecisionId, NEW d \in Decision, AppendRow(i, d)
  PROVE  OneChain'
<1>1. /\ i \notin Stored
      /\ Stored' = Stored \cup {i}
      /\ decisions'[i] = d
      /\ \A j \in Stored : decisions'[j] = decisions[j]
  BY AppendAddsOne
<1>2. Succeeds(d)
  BY DEF AppendRow
<1>3. d.target \in Target
  BY DEF Decision
<1>4. ASSUME NEW k \in Stored, d.supersedes = Null, decisions[k].supersedes = Null,
             decisions[k].target = d.target
      PROVE  FALSE
  <2>1. \E e \in DecisionId : Effective(d.target) = {e}
    BY <1>3, <1>4 DEF SingleHistory, OneEffective
  <2> QED
    BY <2>1, <1>2, <1>4, NullAssumption DEF Succeeds, Effective, Stored
<1>5. ASSUME NEW k \in Stored, d.supersedes # Null PROVE decisions[k].supersedes # d.supersedes
  BY <1>2, <1>5 DEF Succeeds, Effective
<1>6. ASSUME d.supersedes # Null
      PROVE  d.supersedes \in Stored /\ decisions[d.supersedes].target = d.target
  BY <1>2, <1>6 DEF Succeeds, Effective
<1>7. ASSUME NEW k \in Stored, NEW j \in Stored
      PROVE  /\ Initial(k)' /\ Initial(j)' /\ decisions'[k].target = decisions'[j].target => k = j
             /\ ~Initial(k)' /\ decisions'[k].supersedes = decisions'[j].supersedes => k = j
             /\ ~Initial(k)' => /\ decisions'[k].supersedes \in Stored'
                                /\ decisions'[decisions'[k].supersedes].target = decisions'[k].target
  BY <1>1, <1>7 DEF SingleHistory, OneChain, Initial
<1>8. ASSUME NEW k \in Stored
      PROVE  /\ ~(Initial(k)' /\ Initial(i)' /\ decisions'[k].target = decisions'[i].target)
             /\ ~(~Initial(k)' /\ decisions'[k].supersedes = decisions'[i].supersedes)
             /\ ~(~Initial(i)' /\ decisions'[k].supersedes = decisions'[i].supersedes)
  BY <1>1, <1>4, <1>5, <1>8 DEF Initial
<1>9. ~Initial(i)' => /\ decisions'[i].supersedes \in Stored'
                      /\ decisions'[decisions'[i].supersedes].target = decisions'[i].target
  BY <1>1, <1>6 DEF Initial
<1> QED
  BY <1>1, <1>7, <1>8, <1>9 DEF OneChain

\* The initial table satisfies the invariant.
LEMMA EmptyIsSingle == AuthorityInit => AuthorityTypeOK /\ SingleHistory
<1> SUFFICES ASSUME AuthorityInit PROVE AuthorityTypeOK /\ SingleHistory
  OBVIOUS
<1>1. Stored = {}
  BY DEF AuthorityInit, Stored
<1> QED
  BY <1>1 DEF AuthorityInit, AuthorityTypeOK, SingleHistory, OneEffective, OneChain

\* One step of the log keeps the type and the single history.
LEMMA AppendKeepsSingle ==
  ASSUME AuthorityTypeOK, SingleHistory,
         NEW i \in DecisionId, NEW d \in Decision, AppendRow(i, d)
  PROVE  AuthorityTypeOK' /\ SingleHistory'
BY AppendKeepsType, AppendKeepsOneEffective, AppendKeepsOneChain DEF SingleHistory

\* A table that does not change keeps them too.
LEMMA StutterKeepsSingle ==
  ASSUME AuthorityTypeOK, SingleHistory, UNCHANGED decisions
  PROVE  AuthorityTypeOK' /\ SingleHistory'
BY DEF AuthorityTypeOK, SingleHistory, OneEffective, OneChain, Effective, Stored, Initial

\* Every target has one unbranched history with one effective end, in every
\* reachable table of the log.
THEOREM AuthorityLogIsSingle == AuthoritySpec => [](AuthorityTypeOK /\ SingleHistory)
<1>1. ASSUME AuthorityTypeOK /\ SingleHistory, [AuthorityNext]_decisions
      PROVE  (AuthorityTypeOK /\ SingleHistory)'
  BY <1>1, AppendKeepsSingle, StutterKeepsSingle DEF AuthorityNext
<1> QED
  BY <1>1, EmptyIsSingle, PTL DEF AuthoritySpec

\* A reviewer's effective decision stays, or another reviewer's follows it.
THEOREM ReviewerStaysFinal == AuthoritySpec => ReviewerIsFinal
<1>1. ASSUME AuthorityTypeOK, SingleHistory, AuthorityNext, NEW i \in Stored,
             i \in Effective(decisions[i].target), decisions[i].authority = "reviewer"
      PROVE  \E j \in Effective(decisions[i].target)' : (decisions[j].authority = "reviewer")'
  <2>1. PICK n \in DecisionId, d \in Decision : AppendRow(n, d)
    BY <1>1 DEF AuthorityNext
  <2>2. /\ decisions'[n] = d
        /\ decisions'[i] = decisions[i]
    BY <1>1, <2>1, AppendAddsOne
  <2>3. /\ Effective(d.target)' = {n}
        /\ \A t \in Target : t # d.target => Effective(t)' = Effective(t)
    BY <1>1, <2>1, AppendIsEffective
  <2>4. decisions[i].target \in Target
    BY <1>1, StoredIsDecision DEF Decision
  <2>5. PICK t \in Target : t = decisions[i].target
    BY <2>4
  <2>6. CASE t # d.target
    <3>1. i \in Effective(t)'
      BY <1>1, <2>3, <2>5, <2>6
    <3> QED
      BY <1>1, <2>2, <2>5, <3>1
  <2>7. CASE t = d.target
    <3>1. d.authority = "reviewer"
      BY <1>1, <2>1, <2>5, <2>7 DEF AppendRow, Succeeds
    <3>2. n \in Effective(t)'
      BY <2>3, <2>7
    <3> QED
      BY <2>2, <2>5, <3>1, <3>2
  <2> QED
    BY <2>6, <2>7
<1>2. AuthorityTypeOK /\ SingleHistory /\ [AuthorityNext]_decisions =>
        [\A i \in Stored : /\ i \in Effective(decisions[i].target)
                           /\ decisions[i].authority = "reviewer"
            => \E j \in Effective(decisions[i].target)' :
                 (decisions[j].authority = "reviewer")']_decisions
  BY <1>1
<1> QED
  BY <1>2, AuthorityLogIsSingle, PTL DEF AuthoritySpec, ReviewerIsFinal
===============================================================================

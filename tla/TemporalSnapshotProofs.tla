------------------------- MODULE TemporalSnapshotProofs -------------------------
(***************************************************************************)
(* TemporalSnapshot for every set of observations, mentions, writers,      *)
(* readers and queries, any clock skew and any depth of the chains: six    *)
(* statements of one repeatable-read transaction answer as one state does, *)
(* and the answer about a date that every clock has passed is final.       *)
(***************************************************************************)
EXTENDS TemporalSnapshot, SequenceTheorems, TLAPS

-----------------------------------------------------------------------------
(* Chains and rows.                                                        *)

AdmissionRow == [outcome : Admissions, at : Dates]

LEMMA ChainTypes ==
  /\ \A h : h \in Chain <=> \E n \in 0..MaxDepth : h \in [1..n -> DecisionRow]
  /\ \A h : h \in AdmissionChain <=> \E n \in 0..MaxDepth : h \in [1..n -> AdmissionRow]
  BY DEF Chain, AdmissionChain, AdmissionRow

\* Read as a sequence, a chain is no longer than the bound.
LEMMA ChainsAreSequences ==
  /\ \A h : h \in Chain <=> h \in Seq(DecisionRow) /\ Len(h) <= MaxDepth
  /\ \A h : h \in AdmissionChain <=> h \in Seq(AdmissionRow) /\ Len(h) <= MaxDepth
  <1>1. ASSUME NEW Row, NEW h
        PROVE  (\E n \in 0..MaxDepth : h \in [1..n -> Row]) <=> h \in Seq(Row) /\ Len(h) <= MaxDepth
    <2>1. ASSUME NEW n \in 0..MaxDepth, h \in [1..n -> Row]
          PROVE  h \in Seq(Row) /\ Len(h) <= MaxDepth
      <3>1. n \in Nat /\ n <= MaxDepth
        BY <2>1, BoundAssumption
      <3>2. h \in Seq(Row)
        BY <2>1, <3>1
      <3>3. Len(h) = n
        BY <2>1, <3>1, <3>2, LenProperties
      <3> QED
        BY <3>1, <3>2, <3>3
    <2>2. ASSUME h \in Seq(Row), Len(h) <= MaxDepth
          PROVE  \E n \in 0..MaxDepth : h \in [1..n -> Row]
      <3>1. Len(h) \in 0..MaxDepth /\ h \in [1..Len(h) -> Row]
        BY <2>2, BoundAssumption, LenProperties, ElementOfSeq
      <3> QED
        BY <3>1
    <2> QED
      BY <2>1, <2>2
  <1> QED
    BY <1>1, ChainTypes

LEMMA StoreTypes ==
  ASSUME NEW S \in Stores
  PROVE  /\ S.entity \in [Entities -> Dates \cup {Never}]
         /\ S.mention \in [Mentions -> Dates \cup {Never}]
         /\ S.observation \in [Observations -> Dates \cup {Never}]
         /\ S.span \in [Spans -> Dates \cup {Never}]
         /\ S.chain \in [Mentions -> Chain]
         /\ S.admission \in [Targets -> AdmissionChain]
  BY DEF Stores

LEMMA DatesAreNumbers == Dates \subseteq Nat /\ Never = 0 /\ Never \notin Dates /\ Current \notin Dates
  BY BoundAssumption DEF Dates, Never

LEMMA StoreDates ==
  ASSUME NEW S \in Stores
  PROVE  /\ \A e \in Entities : S.entity[e] \in Nat
         /\ \A m \in Mentions : S.mention[m] \in Nat
         /\ \A o \in Observations : S.observation[o] \in Nat
         /\ \A m \in Mentions : \A i \in DOMAIN S.chain[m] : S.chain[m][i] \in DecisionRow
         /\ \A t \in Targets : \A i \in DOMAIN S.admission[t] : S.admission[t][i] \in AdmissionRow
  <1>1. Dates \cup {Never} \subseteq Nat
    BY DatesAreNumbers
  <1>2. \A e \in Entities : S.entity[e] \in Dates \cup {Never}
    BY StoreTypes
  <1>3. \A m \in Mentions : S.mention[m] \in Dates \cup {Never}
    BY StoreTypes
  <1>4. \A o \in Observations : S.observation[o] \in Dates \cup {Never}
    BY StoreTypes
  <1>5. \A m \in Mentions : S.chain[m] \in Chain
    BY StoreTypes
  <1>6. \A t \in Targets : S.admission[t] \in AdmissionChain
    BY StoreTypes
  <1>7. \A m \in Mentions : \A i \in DOMAIN S.chain[m] : S.chain[m][i] \in DecisionRow
    BY <1>5, ChainTypes
  <1>8. \A t \in Targets : \A i \in DOMAIN S.admission[t] : S.admission[t][i] \in AdmissionRow
    BY <1>6, ChainTypes
  <1> QED
    BY <1>1, <1>2, <1>3, <1>4, <1>7, <1>8

-----------------------------------------------------------------------------
(* What the store owes its readers: an observation is stored with the spans *)
(* it cites, and nothing is admitted before it is stored.                  *)

RowsOK(S) ==
  /\ S \in Stores
  /\ \A o \in Observations : S.observation[o] # Never => \A s \in SpansOf[o] : S.span[s] # Never
  /\ \A m \in Mentions : S.admission[m] # <<>> => S.mention[m] # Never
  /\ \A o \in Observations : S.admission[o] # <<>> => S.observation[o] # Never

\* A write set that waits for its commit.  An admission that starts a chain is
\* about an identity decision: the other targets are admitted when stored.
WorkOK(k) ==
  /\ k \in Work
  /\ k.op = "decide" => k.after < MaxDepth
  /\ k.op = "admit" => /\ k.after < MaxDepth
                       /\ k.after = 0 => k.target \in DecisionTargets

\* S2 comes after S, and all that it adds to the rows a cutoff at T selects is
\* dated later than T.
Later(S, S2, T) ==
  /\ \A e \in Entities : S2.entity[e] = S.entity[e] \/ (S.entity[e] = Never /\ S2.entity[e] > T)
  /\ \A m \in Mentions : S2.mention[m] = S.mention[m] \/ (S.mention[m] = Never /\ S2.mention[m] > T)
  /\ \A o \in Observations :
       S2.observation[o] = S.observation[o] \/ (S.observation[o] = Never /\ S2.observation[o] > T)
  /\ \A s \in Spans : S.span[s] # Never => S2.span[s] = S.span[s]
  /\ \A m \in Mentions : \A i \in 1..MaxDepth :
       \/ i \notin DOMAIN S.chain[m] /\ i \notin DOMAIN S2.chain[m]
       \/ i \in DOMAIN S.chain[m] /\ i \in DOMAIN S2.chain[m] /\ S2.chain[m][i] = S.chain[m][i]
       \/ i \notin DOMAIN S.chain[m] /\ i \in DOMAIN S2.chain[m] /\ S2.chain[m][i].at > T
  /\ \A t \in Targets : \A i \in 1..MaxDepth :
       \/ i \notin DOMAIN S.admission[t] /\ i \notin DOMAIN S2.admission[t]
       \/ /\ i \in DOMAIN S.admission[t] /\ i \in DOMAIN S2.admission[t]
          /\ S2.admission[t][i] = S.admission[t][i]
       \/ i \notin DOMAIN S.admission[t] /\ i \in DOMAIN S2.admission[t] /\ S2.admission[t][i].at > T

LEMMA LaterThanItself == ASSUME NEW S, NEW T PROVE Later(S, S, T)
  BY DEF Later

-----------------------------------------------------------------------------
(* A row dated later changes nothing of what the cutoff shows.             *)

LEMMA DecisionRows ==
  ASSUME NEW S, NEW x
  PROVE  x \in Decisions(S) <=>
           \E m \in Mentions, i \in 1..MaxDepth :
             /\ i \in DOMAIN S.chain[m]
             /\ x = [mention |-> m, depth |-> i, outcome |-> S.chain[m][i].outcome,
                     entity |-> S.chain[m][i].entity, at |-> S.chain[m][i].at]
  <1> DEFINE Row(m, i) == [mention |-> m, depth |-> i, outcome |-> S.chain[m][i].outcome,
                           entity |-> S.chain[m][i].entity, at |-> S.chain[m][i].at]
  <1>1. Decisions(S) = {Row(d[1], d[2]) : d \in {d \in DecisionTargets : d[2] \in DOMAIN S.chain[d[1]]}}
    BY DEF Decisions
  <1>2. DecisionTargets = Mentions \X (1..MaxDepth)
    BY DEF DecisionTargets
  <1> SUFFICES x \in Decisions(S) <=> \E m \in Mentions, i \in 1..MaxDepth :
                                       i \in DOMAIN S.chain[m] /\ x = Row(m, i)
    OBVIOUS
  <1> HIDE DEF Row
  <1>3. ASSUME x \in Decisions(S)
        PROVE  \E m \in Mentions, i \in 1..MaxDepth : i \in DOMAIN S.chain[m] /\ x = Row(m, i)
    <2>1. PICK d \in DecisionTargets : d[2] \in DOMAIN S.chain[d[1]] /\ x = Row(d[1], d[2])
      BY <1>1, <1>3
    <2>2. d[1] \in Mentions /\ d[2] \in 1..MaxDepth
      BY <1>2
    <2> QED
      BY <2>1, <2>2
  <1>4. ASSUME NEW m \in Mentions, NEW i \in 1..MaxDepth, i \in DOMAIN S.chain[m], x = Row(m, i)
        PROVE  x \in Decisions(S)
    <2>1. <<m, i>> \in DecisionTargets /\ <<m, i>>[1] = m /\ <<m, i>>[2] = i
      BY <1>2
    <2> QED
      BY <1>1, <1>4, <2>1
  <1> QED
    BY <1>3, <1>4

LEMMA AdmissionRows ==
  ASSUME NEW S, NEW x
  PROVE  x \in AdmissionDecisions(S) <=>
           \E t \in Targets, i \in 1..MaxDepth :
             /\ i \in DOMAIN S.admission[t]
             /\ x = [target |-> t, depth |-> i, outcome |-> S.admission[t][i].outcome,
                     at |-> S.admission[t][i].at]
  <1> DEFINE Row(t, i) == [target |-> t, depth |-> i, outcome |-> S.admission[t][i].outcome,
                           at |-> S.admission[t][i].at]
             Places == Targets \X (1..MaxDepth)
  <1>1. AdmissionDecisions(S) = {Row(a[1], a[2]) : a \in {a \in Places : a[2] \in DOMAIN S.admission[a[1]]}}
    BY DEF AdmissionDecisions
  <1> SUFFICES x \in AdmissionDecisions(S) <=> \E t \in Targets, i \in 1..MaxDepth :
                                                i \in DOMAIN S.admission[t] /\ x = Row(t, i)
    OBVIOUS
  <1>2. /\ \A a \in Places : a[1] \in Targets /\ a[2] \in 1..MaxDepth
        /\ \A t \in Targets, i \in 1..MaxDepth :
             <<t, i>> \in Places /\ <<t, i>>[1] = t /\ <<t, i>>[2] = i
    OBVIOUS
  <1> HIDE DEF Row, Places
  <1>3. ASSUME x \in AdmissionDecisions(S)
        PROVE  \E t \in Targets, i \in 1..MaxDepth : i \in DOMAIN S.admission[t] /\ x = Row(t, i)
    <2>1. PICK a \in Places : a[2] \in DOMAIN S.admission[a[1]] /\ x = Row(a[1], a[2])
      BY <1>1, <1>3
    <2> QED
      BY <1>2, <2>1
  <1>4. ASSUME NEW t \in Targets, NEW i \in 1..MaxDepth, i \in DOMAIN S.admission[t], x = Row(t, i)
        PROVE  x \in AdmissionDecisions(S)
    BY <1>1, <1>2, <1>4
  <1> QED
    BY <1>3, <1>4

LEMMA ViewStays ==
  ASSUME NEW S \in Stores, NEW S2 \in Stores, RowsOK(S), NEW T \in Dates, Later(S, S2, T)
  PROVE  /\ View(S2, T) = View(S, T)
         /\ \A ids \in SUBSET Observations : Cited(S2, T, ids) = Cited(S, T, ids)
  <1>0. T # Current /\ Dates \subseteq Nat /\ Never = 0 /\ T \in Nat
    BY DatesAreNumbers
  <1>b. \A y \in Dates : Visible(y, T) => ~(y > T)
    BY <1>0, DatesAreNumbers DEF Visible, InScope
  <1>a. ASSUME NEW x \in Nat, NEW y \in Nat, y = x \/ (x = Never /\ y > T)
        PROVE  Visible(y, T) <=> Visible(x, T)
    BY <1>0, <1>a DEF Visible, InScope
  <1>1. {e \in Entities : Visible(S2.entity[e], T)} = {e \in Entities : Visible(S.entity[e], T)}
    <2>1. ASSUME NEW e \in Entities PROVE S.entity[e] \in Nat /\ S2.entity[e] \in Nat
      BY StoreDates
    <2> QED
      BY <1>a, <2>1 DEF Later
  <1>2. {m \in Mentions : Visible(S2.mention[m], T)} = {m \in Mentions : Visible(S.mention[m], T)}
    <2>1. ASSUME NEW m \in Mentions PROVE S.mention[m] \in Nat /\ S2.mention[m] \in Nat
      BY StoreDates
    <2> QED
      BY <1>a, <2>1 DEF Later
  <1>3. \A o \in Observations : Visible(S2.observation[o], T) <=> Visible(S.observation[o], T)
    <2>1. ASSUME NEW o \in Observations PROVE S.observation[o] \in Nat /\ S2.observation[o] \in Nat
      BY StoreDates
    <2> QED
      BY <1>a, <2>1 DEF Later
  <1>4. \A o \in Observations : Visible(S.observation[o], T) =>
          \A s \in SpansOf[o] : S2.span[s] = S.span[s] /\ S.span[s] # Never
    BY DataAssumption DEF RowsOK, Later, Visible
  <1>5. \A o \in Observations :
          Visible(S2.observation[o], T) /\ Evident(S2, T, o) <=> Visible(S.observation[o], T) /\ Evident(S, T, o)
    BY <1>3, <1>4 DEF Evident
  <1>6. {d \in Decisions(S2) : Visible(d.at, T)} = {d \in Decisions(S) : Visible(d.at, T)}
    <2>1. ASSUME NEW m \in Mentions, NEW i \in 1..MaxDepth, i \in DOMAIN S2.chain[m],
                 Visible(S2.chain[m][i].at, T)
          PROVE  i \in DOMAIN S.chain[m] /\ S2.chain[m][i] = S.chain[m][i]
      <3>1. S2.chain[m][i].at \in Dates
        BY <2>1, StoreDates DEF DecisionRow
      <3>2. ~(S2.chain[m][i].at > T)
        BY <1>b, <2>1, <3>1
      <3> QED
        BY <2>1, <3>2 DEF Later
    <2>2. ASSUME NEW m \in Mentions, NEW i \in 1..MaxDepth, i \in DOMAIN S.chain[m]
          PROVE  i \in DOMAIN S2.chain[m] /\ S2.chain[m][i] = S.chain[m][i]
      BY <2>2 DEF Later
    <2>3. ASSUME NEW d, Visible(d.at, T) PROVE d \in Decisions(S2) <=> d \in Decisions(S)
      <3>1. ASSUME d \in Decisions(S2) PROVE d \in Decisions(S)
        <4>1. PICK m \in Mentions, i \in 1..MaxDepth :
                /\ i \in DOMAIN S2.chain[m]
                /\ d = [mention |-> m, depth |-> i, outcome |-> S2.chain[m][i].outcome,
                        entity |-> S2.chain[m][i].entity, at |-> S2.chain[m][i].at]
          BY <3>1, DecisionRows
        <4>2. i \in DOMAIN S.chain[m] /\ S2.chain[m][i] = S.chain[m][i]
          BY <2>1, <2>3, <4>1
        <4> QED
          BY <4>1, <4>2, DecisionRows
      <3>2. ASSUME d \in Decisions(S) PROVE d \in Decisions(S2)
        <4>1. PICK m \in Mentions, i \in 1..MaxDepth :
                /\ i \in DOMAIN S.chain[m]
                /\ d = [mention |-> m, depth |-> i, outcome |-> S.chain[m][i].outcome,
                        entity |-> S.chain[m][i].entity, at |-> S.chain[m][i].at]
          BY <3>2, DecisionRows
        <4>2. i \in DOMAIN S2.chain[m] /\ S2.chain[m][i] = S.chain[m][i]
          BY <2>2, <4>1
        <4> QED
          BY <4>1, <4>2, DecisionRows
      <3> QED
        BY <3>1, <3>2
    <2> QED
      BY <2>3
  <1>7. {a \in AdmissionDecisions(S2) : Visible(a.at, T)} = {a \in AdmissionDecisions(S) : Visible(a.at, T)}
    <2>1. ASSUME NEW t \in Targets, NEW i \in 1..MaxDepth, i \in DOMAIN S2.admission[t],
                 Visible(S2.admission[t][i].at, T)
          PROVE  i \in DOMAIN S.admission[t] /\ S2.admission[t][i] = S.admission[t][i]
      <3>1. S2.admission[t][i].at \in Dates
        BY <2>1, StoreDates DEF AdmissionRow
      <3>2. ~(S2.admission[t][i].at > T)
        BY <1>b, <2>1, <3>1
      <3> QED
        BY <2>1, <3>2 DEF Later
    <2>2. ASSUME NEW t \in Targets, NEW i \in 1..MaxDepth, i \in DOMAIN S.admission[t]
          PROVE  i \in DOMAIN S2.admission[t] /\ S2.admission[t][i] = S.admission[t][i]
      BY <2>2 DEF Later
    <2>3. ASSUME NEW a, Visible(a.at, T) PROVE a \in AdmissionDecisions(S2) <=> a \in AdmissionDecisions(S)
      <3>1. ASSUME a \in AdmissionDecisions(S2) PROVE a \in AdmissionDecisions(S)
        <4>1. PICK t \in Targets, i \in 1..MaxDepth :
                /\ i \in DOMAIN S2.admission[t]
                /\ a = [target |-> t, depth |-> i, outcome |-> S2.admission[t][i].outcome,
                        at |-> S2.admission[t][i].at]
          BY <3>1, AdmissionRows
        <4>2. i \in DOMAIN S.admission[t] /\ S2.admission[t][i] = S.admission[t][i]
          BY <2>1, <2>3, <4>1
        <4> QED
          BY <4>1, <4>2, AdmissionRows
      <3>2. ASSUME a \in AdmissionDecisions(S) PROVE a \in AdmissionDecisions(S2)
        <4>1. PICK t \in Targets, i \in 1..MaxDepth :
                /\ i \in DOMAIN S.admission[t]
                /\ a = [target |-> t, depth |-> i, outcome |-> S.admission[t][i].outcome,
                        at |-> S.admission[t][i].at]
          BY <3>2, AdmissionRows
        <4>2. i \in DOMAIN S2.admission[t] /\ S2.admission[t][i] = S.admission[t][i]
          BY <2>2, <4>1
        <4> QED
          BY <4>1, <4>2, AdmissionRows
      <3> QED
        BY <3>1, <3>2
    <2> QED
      BY <2>3
  <1>8. View(S2, T) = View(S, T)
    <2>1. {o \in Observations : Visible(S2.observation[o], T)}
            = {o \in Observations : Visible(S.observation[o], T)}
      BY <1>3
    <2>2. {o \in Observations : Visible(S2.observation[o], T) /\ Evident(S2, T, o)}
            = {o \in Observations : Visible(S.observation[o], T) /\ Evident(S, T, o)}
      BY <1>5
    <2> QED
      BY <1>1, <1>2, <1>6, <1>7, <2>1, <2>2 DEF View
  <1>9. ASSUME NEW ids \in SUBSET Observations PROVE Cited(S2, T, ids) = Cited(S, T, ids)
    <2>1. ASSUME NEW c \in ids \X Spans
          PROVE  (/\ c[2] \in SpansOf[c[1]]
                  /\ Visible(S2.observation[c[1]], T) /\ Visible(S2.span[c[2]], T))
                 <=> (/\ c[2] \in SpansOf[c[1]]
                      /\ Visible(S.observation[c[1]], T) /\ Visible(S.span[c[2]], T))
      <3>1. c[1] \in Observations
        OBVIOUS
      <3> QED
        BY <1>3, <1>4, <3>1
    <2> QED
      BY <2>1 DEF Cited
  <1> QED
    BY <1>8, <1>9

\* The statements see the store through the view and the links alone.
LEMMA RetainedRows ==
  ASSUME NEW V, NEW q
  PROVE  /\ {r.id : r \in Retained(V, q)} = {o \in Related(V, q) : Classification(V, q, o) = "retained"}
         /\ Related(V, q) \subseteq V.observations
  <1> DEFINE kept == {o \in Related(V, q) : Classification(V, q, o) = "retained"}
             Row(o) == [id |-> o, subject |-> EntityOf(V, Subject[o]), object |-> EntityOf(V, Object[o])]
  <1>1. Retained(V, q) = {Row(o) : o \in kept}
    BY DEF Retained
  <1>2. \A o : Row(o).id = o
    OBVIOUS
  <1> HIDE DEF Row, kept
  <1>3. {r.id : r \in Retained(V, q)} = kept
    BY <1>1, <1>2
  <1> QED
    BY <1>3 DEF Related, kept

LEMMA AnswerStays ==
  ASSUME NEW S \in Stores, NEW S2 \in Stores, RowsOK(S), NEW q \in Queries, q.cutoff \in Dates,
         Later(S, S2, q.cutoff)
  PROVE  Answer(S2, q) = Answer(S, q)
  <1> DEFINE T == q.cutoff
             V == View(S, T)
             ids == {r.id : r \in Retained(V, q)}
  <1>1. View(S2, T) = V /\ \A is \in SUBSET Observations : Cited(S2, T, is) = Cited(S, T, is)
    BY ViewStays
  <1>2. ids \in SUBSET Observations
    <2>1. ids \subseteq V.observations
      BY RetainedRows
    <2>2. V.observations \subseteq Observations
      BY DEF View
    <2> QED
      BY <2>1, <2>2
  <1>3. Cited(S2, T, ids) = Cited(S, T, ids)
    BY <1>1, <1>2
  <1> QED
    BY <1>1, <1>3 DEF Answer

-----------------------------------------------------------------------------
(* The write sets keep the rows in order and add only what they dated.     *)

LEMMA WorkTypes ==
  ASSUME NEW k, WorkOK(k)
  PROVE  /\ k.op = "complete" => k.run \in Runs /\ k.at \in Dates /\ k.versionAt \in Dates
         /\ k.op = "decide" => /\ k.mention \in Mentions /\ k.after \in 0..(MaxDepth - 1)
                               /\ k.outcome \in Outcomes /\ k.entity \in Entities \cup {Nobody}
                               /\ k.creates \in BOOLEAN /\ k.at \in Dates /\ Names(k)
         /\ k.op = "admit" => /\ k.target \in Targets /\ k.after \in 0..(MaxDepth - 1)
                              /\ k.outcome \in Admissions /\ k.at \in Dates
                              /\ k.after = 0 => k.target \in DecisionTargets
         /\ k # Idle => k.op # "idle" /\ k.at \in Dates
  BY BoundAssumption DEF WorkOK, Work, Idle

LEMMA Puts ==
  ASSUME NEW Row, NEW at \in [Row -> Dates \cup {Never}], NEW rows, NEW date \in Dates
  PROVE  /\ Put(at, rows, date) \in [Row -> Dates \cup {Never}]
         /\ \A x \in Row : Put(at, rows, date)[x] = IF x \in rows THEN date ELSE at[x]
  BY DEF Put

\* An extraction brings its spans along, admits only rows it inserts, and every
\* row it inserts except a span has its date.
LEMMA ExtractionStep ==
  ASSUME RowsOK(store), NEW w \in Writers, WorkOK(writer[w]), CommitExtraction(w)
  PROVE  /\ RowsOK(store')
         /\ \A T \in Dates : writer[w].at > T => Later(store, store', T)
  <1>1. PICK k : k = writer[w]
    OBVIOUS
  <1>2. PICK S \in Stores : S = store
    BY DEF RowsOK
  <1>3. PICK S2 : S2 = store'
    OBVIOUS
  <1>4. /\ k.run \in Runs /\ k.at \in Dates /\ k.versionAt \in Dates
        /\ \A o \in k.run : S.observation[o] = Never
        /\ \A m \in RunMentions(k.run) : S.mention[m] = Never
        /\ Puttable(S.span, RunSpans(k.run), k.versionAt)
        /\ S2 = [S EXCEPT !.observation = PutObservations(S, k),
                          !.mention = PutMentions(S, k),
                          !.span = PutEvidenceSpans(S, k),
                          !.admission = FirstAdmissions(S, k)]
    BY <1>1, <1>2, <1>3, WorkTypes DEF CommitExtraction, Commit
  <1>5. /\ S2.observation = PutObservations(S, k) /\ S2.mention = PutMentions(S, k)
        /\ S2.span = PutEvidenceSpans(S, k) /\ S2.admission = FirstAdmissions(S, k)
        /\ S2.entity = S.entity /\ S2.chain = S.chain
        /\ S2 = [entity |-> S2.entity, mention |-> S2.mention, observation |-> S2.observation,
                 span |-> S2.span, chain |-> S2.chain, admission |-> S2.admission]
    BY <1>4 DEF Stores
  <1>6. /\ k.run \subseteq Observations /\ RunMentions(k.run) \subseteq Mentions
        /\ RunSpans(k.run) \subseteq Spans
        /\ \A o \in k.run : SpansOf[o] \subseteq RunSpans(k.run)
    BY <1>4, DataAssumption DEF RunMentions, MentionsOf, RunSpans
  <1>7. /\ S2.observation \in [Observations -> Dates \cup {Never}]
        /\ \A o \in Observations : S2.observation[o] = IF o \in k.run THEN k.at ELSE S.observation[o]
    BY <1>4, <1>5, Puts, StoreTypes DEF PutObservations
  <1>8. /\ S2.mention \in [Mentions -> Dates \cup {Never}]
        /\ \A m \in Mentions :
             S2.mention[m] = IF m \in RunMentions(k.run) THEN k.at ELSE S.mention[m]
    BY <1>4, <1>5, Puts, StoreTypes DEF PutMentions
  <1>9. /\ S2.span \in [Spans -> Dates \cup {Never}]
        /\ \A s \in Spans : S2.span[s] = IF s \in RunSpans(k.run) THEN k.versionAt ELSE S.span[s]
    BY <1>4, <1>5, Puts, StoreTypes DEF PutEvidenceSpans
  <1>10. \A t \in Targets : S2.admission[t] = IF t \in k.run \cup RunMentions(k.run)
                                                THEN <<[outcome |-> "admitted", at |-> k.at]>>
                                                ELSE S.admission[t]
    BY <1>5 DEF FirstAdmissions
  <1>11. <<[outcome |-> "admitted", at |-> k.at]>> \in AdmissionChain
    <2>1. <<[outcome |-> "admitted", at |-> k.at]>> \in [1..1 -> AdmissionRow]
      BY <1>4 DEF AdmissionRow, Admissions
    <2>2. 1 \in 0..MaxDepth
      BY BoundAssumption
    <2> QED
      BY <2>1, <2>2, ChainTypes
  <1>12. S2 \in Stores
    <2>1. S2.admission \in [Targets -> AdmissionChain]
      BY <1>5, <1>10, <1>11, StoreTypes DEF FirstAdmissions
    <2> QED
      BY <1>5, <1>7, <1>8, <1>9, <2>1, StoreTypes DEF Stores
  <1>13. /\ \A o \in Observations : S.observation[o] # Never => \A s \in SpansOf[o] : S.span[s] # Never
         /\ \A m \in Mentions : S.admission[m] # <<>> => S.mention[m] # Never
         /\ \A o \in Observations : S.admission[o] # <<>> => S.observation[o] # Never
    BY <1>2 DEF RowsOK
  <1>14. RowsOK(S2)
    <2>1. \A o \in Observations : S2.observation[o] # Never => \A s \in SpansOf[o] : S2.span[s] # Never
      BY <1>4, <1>6, <1>7, <1>9, <1>13, DatesAreNumbers, DataAssumption
    <2>2. \A m \in Mentions : S2.admission[m] # <<>> => S2.mention[m] # Never
      <3>1. \A m \in Mentions : m \notin k.run
        BY <1>6, TargetAssumption
      <3> QED
        BY <1>4, <1>8, <1>10, <1>13, <3>1, DatesAreNumbers DEF Targets
    <2>3. \A o \in Observations : S2.admission[o] # <<>> => S2.observation[o] # Never
      <3>1. \A o \in Observations : o \notin RunMentions(k.run)
        BY <1>6, TargetAssumption
      <3> QED
        BY <1>4, <1>7, <1>10, <1>13, <3>1, DatesAreNumbers DEF Targets
    <2> QED
      BY <1>12, <2>1, <2>2, <2>3 DEF RowsOK
  <1>15. ASSUME NEW T \in Dates, k.at > T PROVE Later(S, S2, T)
    <2>1. \A s \in Spans : S.span[s] # Never => S2.span[s] = S.span[s]
      BY <1>4, <1>9 DEF Puttable
    <2>2. ASSUME NEW t \in Targets, NEW i \in 1..MaxDepth
          PROVE  \/ i \notin DOMAIN S.admission[t] /\ i \notin DOMAIN S2.admission[t]
                 \/ /\ i \in DOMAIN S.admission[t] /\ i \in DOMAIN S2.admission[t]
                    /\ S2.admission[t][i] = S.admission[t][i]
                 \/ i \notin DOMAIN S.admission[t] /\ i \in DOMAIN S2.admission[t] /\ S2.admission[t][i].at > T
      <3>1. CASE t \notin k.run \cup RunMentions(k.run)
        BY <1>10, <3>1
      <3>2. CASE t \in k.run \cup RunMentions(k.run)
        <4>1. S.admission[t] = <<>>
          BY <1>4, <1>6, <1>13, <3>2
        <4>2. DOMAIN S.admission[t] = {}
          BY <4>1
        <4>3. S2.admission[t] = <<[outcome |-> "admitted", at |-> k.at]>>
          BY <1>10, <3>2
        <4>4. i \in DOMAIN S2.admission[t] => S2.admission[t][i].at = k.at
          BY <4>3
        <4> QED
          BY <1>15, <4>2, <4>4
      <3> QED
        BY <3>1, <3>2
    <2>3. \A m \in Mentions : \A i \in 1..MaxDepth :
            \/ i \notin DOMAIN S.chain[m] /\ i \notin DOMAIN S2.chain[m]
            \/ i \in DOMAIN S.chain[m] /\ i \in DOMAIN S2.chain[m] /\ S2.chain[m][i] = S.chain[m][i]
      BY <1>5
    <2> QED
      BY <1>4, <1>5, <1>7, <1>8, <1>15, <2>1, <2>2, <2>3 DEF Later
  <1> QED
    BY <1>1, <1>2, <1>3, <1>14, <1>15

\* A decision makes its mention's chain one longer, and only that chain.
LEMMA DecisionStep ==
  ASSUME RowsOK(store), NEW w \in Writers, WorkOK(writer[w]), CommitDecision(w)
  PROVE  /\ RowsOK(store')
         /\ \A T \in Dates : writer[w].at > T => Later(store, store', T)
  <1>1. PICK k : k = writer[w]
    OBVIOUS
  <1>2. PICK S \in Stores : S = store
    BY DEF RowsOK
  <1>3. PICK S2 : S2 = store'
    OBVIOUS
  <1>4. PICK row : row = [outcome |-> k.outcome, entity |-> k.entity, at |-> k.at]
    OBVIOUS
  <1>5. /\ k.mention \in Mentions /\ k.after \in 0..(MaxDepth - 1) /\ k.at \in Dates
        /\ Len(S.chain[k.mention]) = k.after
        /\ row \in DecisionRow /\ row.at = k.at
        /\ k.creates => S.entity[k.entity] = Never
        /\ S2 = [S EXCEPT !.entity = PutEntity(S, k),
                          !.chain[k.mention] = Append(@, row)]
    BY <1>1, <1>2, <1>3, <1>4, WorkTypes DEF CommitDecision, Commit, DecisionRow, Names
  <1>6. /\ S2.entity = PutEntity(S, k)
        /\ S2.chain = [S.chain EXCEPT ![k.mention] = Append(@, row)]
        /\ S2.mention = S.mention /\ S2.observation = S.observation /\ S2.span = S.span
        /\ S2.admission = S.admission
        /\ S2 = [entity |-> S2.entity, mention |-> S2.mention, observation |-> S2.observation,
                 span |-> S2.span, chain |-> S2.chain, admission |-> S2.admission]
    BY <1>5 DEF Stores
  <1>7. /\ S2.entity \in [Entities -> Dates \cup {Never}]
        /\ \A e \in Entities : S2.entity[e] = S.entity[e] \/ (S.entity[e] = Never /\ S2.entity[e] = k.at)
    BY <1>5, <1>6, Puts, StoreTypes DEF PutEntity
  <1>8. /\ Append(S.chain[k.mention], row) \in Chain
        /\ DOMAIN S.chain[k.mention] = 1..k.after
        /\ DOMAIN Append(S.chain[k.mention], row) = 1..(k.after + 1)
        /\ \A i \in 1..k.after : Append(S.chain[k.mention], row)[i] = S.chain[k.mention][i]
        /\ Append(S.chain[k.mention], row)[k.after + 1] = row
    <2>1. PICK h \in Chain : h = S.chain[k.mention]
      BY <1>5, StoreTypes
    <2>2. h \in Seq(DecisionRow) /\ Len(h) = k.after
      BY <1>5, <2>1, ChainsAreSequences
    <2>3. /\ DOMAIN h = 1..k.after
          /\ Append(h, row) \in Seq(DecisionRow) /\ Len(Append(h, row)) = k.after + 1
          /\ \A i \in 1..k.after : Append(h, row)[i] = h[i]
          /\ Append(h, row)[k.after + 1] = row
      BY <1>5, <2>2, AppendProperties, LenProperties
    <2>4. DOMAIN Append(h, row) = 1..(k.after + 1)
      BY <2>3, LenProperties
    <2>5. Append(h, row) \in Chain
      <3>1. PICK g \in Seq(DecisionRow) : g = Append(h, row)
        BY <2>3
      <3>2. Len(g) <= MaxDepth
        BY <1>5, <2>3, <3>1, BoundAssumption
      <3> QED
        BY <3>1, <3>2, ChainsAreSequences
    <2> QED
      BY <2>1, <2>3, <2>4, <2>5
  <1>9. /\ S2.chain \in [Mentions -> Chain]
        /\ \A m \in Mentions : S2.chain[m] = IF m = k.mention THEN Append(S.chain[m], row) ELSE S.chain[m]
    BY <1>5, <1>6, <1>8, StoreTypes
  <1>10. RowsOK(S2)
    <2>1. S2 \in Stores
      BY <1>6, <1>7, <1>9, StoreTypes DEF Stores
    <2> QED
      BY <1>2, <1>6, <2>1 DEF RowsOK
  <1>11. ASSUME NEW T \in Dates, k.at > T PROVE Later(S, S2, T)
    <2>1. ASSUME NEW m \in Mentions, NEW i \in 1..MaxDepth
          PROVE  \/ i \notin DOMAIN S.chain[m] /\ i \notin DOMAIN S2.chain[m]
                 \/ i \in DOMAIN S.chain[m] /\ i \in DOMAIN S2.chain[m] /\ S2.chain[m][i] = S.chain[m][i]
                 \/ i \notin DOMAIN S.chain[m] /\ i \in DOMAIN S2.chain[m] /\ S2.chain[m][i].at > T
      <3>1. CASE m # k.mention
        BY <1>9, <3>1
      <3>2. CASE m = k.mention
        <4>1. S2.chain[m] = Append(S.chain[k.mention], row) /\ S.chain[m] = S.chain[k.mention]
          BY <1>9, <3>2
        <4>2. i \in 1..(k.after + 1) => i \in 1..k.after \/ i = k.after + 1
          BY <1>5, BoundAssumption
        <4>3. i \in 1..k.after => i \in 1..(k.after + 1)
          BY <1>5, BoundAssumption
        <4>4. k.after + 1 \notin 1..k.after
          BY <1>5, BoundAssumption
        <4> QED
          BY <1>5, <1>8, <1>11, <4>1, <4>2, <4>3, <4>4
      <3> QED
        BY <3>1, <3>2
    <2> QED
      BY <1>6, <1>7, <1>11, <2>1 DEF Later
  <1> QED
    BY <1>1, <1>2, <1>3, <1>10, <1>11

LEMMA AdmissionStep ==
  ASSUME RowsOK(store), NEW w \in Writers, WorkOK(writer[w]), CommitAdmission(w)
  PROVE  /\ RowsOK(store')
         /\ \A T \in Dates : writer[w].at > T => Later(store, store', T)
  <1>1. PICK k : k = writer[w]
    OBVIOUS
  <1>2. PICK S \in Stores : S = store
    BY DEF RowsOK
  <1>3. PICK S2 : S2 = store'
    OBVIOUS
  <1>4. PICK row : row = [outcome |-> k.outcome, at |-> k.at]
    OBVIOUS
  <1>5. /\ k.target \in Targets /\ k.after \in 0..(MaxDepth - 1) /\ k.at \in Dates
        /\ k.after = 0 => k.target \in DecisionTargets
        /\ Len(S.admission[k.target]) = k.after
        /\ row \in AdmissionRow /\ row.at = k.at
        /\ S2 = [S EXCEPT !.admission[k.target] = Append(@, row)]
    BY <1>1, <1>2, <1>3, <1>4, WorkTypes DEF CommitAdmission, Commit, AdmissionRow
  <1>6. /\ S2.admission = [S.admission EXCEPT ![k.target] = Append(@, row)]
        /\ S2.entity = S.entity /\ S2.mention = S.mention /\ S2.observation = S.observation
        /\ S2.span = S.span /\ S2.chain = S.chain
        /\ S2 = [entity |-> S2.entity, mention |-> S2.mention, observation |-> S2.observation,
                 span |-> S2.span, chain |-> S2.chain, admission |-> S2.admission]
    BY <1>5 DEF Stores
  <1>7. /\ Append(S.admission[k.target], row) \in AdmissionChain
        /\ DOMAIN S.admission[k.target] = 1..k.after
        /\ DOMAIN Append(S.admission[k.target], row) = 1..(k.after + 1)
        /\ \A i \in 1..k.after : Append(S.admission[k.target], row)[i] = S.admission[k.target][i]
        /\ Append(S.admission[k.target], row)[k.after + 1] = row
    <2>1. PICK h \in AdmissionChain : h = S.admission[k.target]
      BY <1>5, StoreTypes
    <2>2. h \in Seq(AdmissionRow) /\ Len(h) = k.after
      BY <1>5, <2>1, ChainsAreSequences
    <2>3. /\ DOMAIN h = 1..k.after
          /\ Append(h, row) \in Seq(AdmissionRow) /\ Len(Append(h, row)) = k.after + 1
          /\ \A i \in 1..k.after : Append(h, row)[i] = h[i]
          /\ Append(h, row)[k.after + 1] = row
      BY <1>5, <2>2, AppendProperties, LenProperties
    <2>4. DOMAIN Append(h, row) = 1..(k.after + 1)
      BY <2>3, LenProperties
    <2>5. Append(h, row) \in AdmissionChain
      <3>1. PICK g \in Seq(AdmissionRow) : g = Append(h, row)
        BY <2>3
      <3>2. Len(g) <= MaxDepth
        BY <1>5, <2>3, <3>1, BoundAssumption
      <3> QED
        BY <3>1, <3>2, ChainsAreSequences
    <2> QED
      BY <2>1, <2>3, <2>4, <2>5
  <1>8. /\ S2.admission \in [Targets -> AdmissionChain]
        /\ \A t \in Targets :
             S2.admission[t] = IF t = k.target THEN Append(S.admission[t], row) ELSE S.admission[t]
    BY <1>5, <1>6, <1>7, StoreTypes
  <1>9. RowsOK(S2)
    <2>1. S2 \in Stores
      BY <1>6, <1>8, StoreTypes DEF Stores
    <2>2. S.admission[k.target] = <<>> => k.target \in DecisionTargets
      BY <1>5
    <2>3. \A t \in Mentions \cup Observations : S2.admission[t] # <<>> => S.admission[t] # <<>>
      BY <1>8, <2>2, TargetAssumption DEF Targets
    <2> QED
      BY <1>2, <1>6, <2>1, <2>3 DEF RowsOK
  <1>10. ASSUME NEW T \in Dates, k.at > T PROVE Later(S, S2, T)
    <2>1. ASSUME NEW t \in Targets, NEW i \in 1..MaxDepth
          PROVE  \/ i \notin DOMAIN S.admission[t] /\ i \notin DOMAIN S2.admission[t]
                 \/ /\ i \in DOMAIN S.admission[t] /\ i \in DOMAIN S2.admission[t]
                    /\ S2.admission[t][i] = S.admission[t][i]
                 \/ i \notin DOMAIN S.admission[t] /\ i \in DOMAIN S2.admission[t] /\ S2.admission[t][i].at > T
      <3>1. CASE t # k.target
        BY <1>8, <3>1
      <3>2. CASE t = k.target
        <4>1. S2.admission[t] = Append(S.admission[k.target], row) /\ S.admission[t] = S.admission[k.target]
          BY <1>8, <3>2
        <4>2. i \in 1..(k.after + 1) => i \in 1..k.after \/ i = k.after + 1
          BY <1>5, BoundAssumption
        <4>3. i \in 1..k.after => i \in 1..(k.after + 1)
          BY <1>5, BoundAssumption
        <4>4. k.after + 1 \notin 1..k.after
          BY <1>5, BoundAssumption
        <4> QED
          BY <1>5, <1>7, <1>10, <4>1, <4>2, <4>3, <4>4
      <3> QED
        BY <3>1, <3>2
    <2> QED
      BY <1>6, <1>10, <2>1 DEF Later
  <1> QED
    BY <1>1, <1>2, <1>3, <1>9, <1>10

-----------------------------------------------------------------------------
(* What the statements compute.                                            *)

LEMMA EntitiesOfTerms ==
  ASSUME NEW V, V.entities \subseteq Entities, NEW x
  PROVE  /\ EntityOf(V, x) \in SUBSET Entities
         /\ NamedBy(V, x) \in SUBSET Entities
  <1>1. Resolved(V, x) \subseteq Entities
    BY DEF Resolved, EffectiveDecisions
  <1> QED
    BY <1>1 DEF EntityOf, NamedBy

LEMMA VerdictTypes ==
  ASSUME NEW S, NEW T, NEW q \in Queries
  PROVE  /\ Retained(View(S, T), q)
              \in SUBSET [id : Observations, subject : SUBSET Entities, object : SUBSET Entities]
         /\ Coverage(View(S, T), q)
              \in SUBSET [reason : {"unresolved-mention", "authority-excluded",
                                   "entity-filtered", "predicate-filtered"},
                         entity : Entities, id : Observations]
         /\ q.entities \in SUBSET Entities /\ q.cutoff \in Dates \cup {Current}
  <1> DEFINE V == View(S, T)
  <1>1. q.entities \in SUBSET Entities /\ q.cutoff \in Dates \cup {Current}
    BY ReadersAssumption DEF Query
  <1>2. V.entities \subseteq Entities /\ V.observations \subseteq Observations
    BY DEF View
  <1> HIDE DEF V
  <1>3. Related(V, q) \subseteq Observations
    BY <1>2, RetainedRows
  <1>4. ASSUME NEW r \in Retained(V, q)
        PROVE  r \in [id : Observations, subject : SUBSET Entities, object : SUBSET Entities]
    <2>1. PICK o \in Related(V, q) :
            r = [id |-> o, subject |-> EntityOf(V, Subject[o]), object |-> EntityOf(V, Object[o])]
      BY <1>4 DEF Retained
    <2>2. EntityOf(V, Subject[o]) \in SUBSET Entities /\ EntityOf(V, Object[o]) \in SUBSET Entities
      BY <1>2, EntitiesOfTerms
    <2> QED
      BY <1>3, <2>1, <2>2
  <1>5. ASSUME NEW c \in Coverage(V, q)
        PROVE  c \in [reason : {"unresolved-mention", "authority-excluded",
                               "entity-filtered", "predicate-filtered"},
                     entity : Entities, id : Observations]
    <2>1. PICK o \in Related(V, q), e \in q.entities :
            /\ Classification(V, q, o) # "retained"
            /\ c = [reason |-> Classification(V, q, o), entity |-> e, id |-> o]
      BY <1>5 DEF Coverage
    <2>2. Classification(V, q, o) \in {"unresolved-mention", "authority-excluded",
                                       "entity-filtered", "predicate-filtered"}
      BY <2>1 DEF Classification
    <2> QED
      BY <1>1, <1>3, <2>1, <2>2
  <1> QED
    BY <1>1, <1>4, <1>5 DEF V

\* An observation qualifies only with its identity settled and its evidence
\* stored, so that the evidence statement finds a link of it.
LEMMA RetainedMeans ==
  ASSUME NEW V, NEW q, NEW o \in Related(V, q), Classification(V, q, o) = "retained"
  PROVE  /\ \A m \in MentionsOf(o) : Resolved(V, m) # {}
         /\ Admitted(V, o) /\ o \in V.evident
         /\ \A x \in Endpoints(o) \cap Entities : x \in V.entities
  BY DEF Classification

LEMMA RetainedIsDocumented ==
  ASSUME NEW S, RowsOK(S), NEW T, NEW q, NEW ids, ids = {r.id : r \in Retained(View(S, T), q)}
  PROVE  Documented(ids, Cited(S, T, ids))
  <1> DEFINE V == View(S, T)
  <1> SUFFICES ASSUME NEW o \in ids PROVE \E c \in Cited(S, T, ids) : c[1] = o
    BY DEF Documented
  <1>1. o \in Related(V, q) /\ Classification(V, q, o) = "retained"
    BY RetainedRows
  <1>2. o \in V.evident
    BY <1>1, RetainedMeans
  <1>3. o \in Observations /\ Visible(S.observation[o], T) /\ Evident(S, T, o)
    BY <1>2 DEF View
  <1>4. PICK s \in SpansOf[o] : InScope(T, S.span[s])
    BY <1>3 DEF Evident
  <1>5. s \in Spans /\ S.span[s] # Never
    BY <1>3, <1>4, DataAssumption DEF RowsOK, Visible
  <1>6. <<o, s>> \in Cited(S, T, ids)
    BY <1>3, <1>4, <1>5 DEF Cited, Visible
  <1> QED
    BY <1>6

-----------------------------------------------------------------------------
(* The inductive invariant.                                                *)

AnswersOf == {Answer(S, q) : S \in Stores, q \in Queries}

\* What a transaction has got so far is what its statements find in the state
\* it began in; that state's answer is among those of the states since.
ReaderOK(x) ==
  LET V == View(x.snapshot, x.query.cutoff) IN
  /\ IsReaderState(x)
  /\ x.pc # "idle" =>
       /\ RowsOK(x.snapshot)
       /\ x.answers \in Seq(AnswersOf)
       /\ \E i \in DOMAIN x.answers : x.answers[i] = Answer(x.snapshot, x.query)
       /\ x.got.known = x.query.entities \cap V.entities
  /\ x.pc \in {"qualification", "values", "evidence", "commit"} => ValidAuthority(V, x.query)
  /\ x.pc = "conflict" => ~ValidAuthority(V, x.query)
  /\ x.pc \in {"values", "evidence", "commit"} =>
       x.got.observations = Retained(V, x.query) /\ x.got.coverage = Coverage(V, x.query)
  /\ x.pc = "commit" =>
       x.got.cited = Cited(x.snapshot, x.query.cutoff, {r.id : r \in Retained(V, x.query)})

SnapshotInv ==
  /\ RowsOK(store)
  /\ clock \in [Writers -> Dates]
  /\ writer \in [Writers -> Work] /\ \A w \in Writers : WorkOK(writer[w])
  /\ reader = [r \in Readers |-> reader[r]] /\ \A r \in Readers : ReaderOK(reader[r])

LEMMA SnapshotInvTypes == SnapshotInv => TypeOK
  BY DEF SnapshotInv, TypeOK, RowsOK, ReaderOK

LEMMA SnapshotInit == Init => SnapshotInv
  <1> SUFFICES ASSUME Init PROVE SnapshotInv
    OBVIOUS
  <1>1. 1 \in Dates
    BY BoundAssumption DEF Dates
  <1>2. <<>> \in Chain /\ <<>> \in AdmissionChain
    <2>1. PICK h : h = <<>>
      OBVIOUS
    <2>2. h \in Seq(DecisionRow) /\ h \in Seq(AdmissionRow) /\ Len(h) <= MaxDepth
      BY <2>1, BoundAssumption
    <2> QED
      BY <2>1, <2>2, ChainsAreSequences
  <1>3. FirstStore \in Stores
    BY <1>1, <1>2 DEF FirstStore, Stores
  <1>4. RowsOK(FirstStore)
    BY <1>3 DEF RowsOK, FirstStore, Targets
  <1>5. WorkOK(Idle)
    BY DEF WorkOK, Work, Idle
  <1>6. ReaderOK([pc |-> "idle"])
    BY DEF ReaderOK, IsReaderState
  <1> QED
    BY <1>1, <1>4, <1>5, <1>6 DEF Init, SnapshotInv, WorkOK

-----------------------------------------------------------------------------
(* The writers.                                                            *)

\* A write set that is dated is well formed.
LEMMA DatedWork ==
  ASSUME SnapshotInv, NEW w \in Writers,
         DateExtraction(w) \/ DateDecision(w) \/ DateRejection(w) \/ DateCorrection(w) \/ DateAdmission(w)
  PROVE  /\ \E k : WorkOK(k) /\ writer' = [writer EXCEPT ![w] = k]
         /\ UNCHANGED <<store, clock, reader>>
  <1>1. clock[w] \in Dates /\ \A k : Date(w, k) => /\ writer' = [writer EXCEPT ![w] = k]
                                                  /\ UNCHANGED <<store, clock, reader>>
    BY DEF SnapshotInv, Date
  <1>2. CASE DateExtraction(w)
    <2>1. PICK R \in Runs, at \in Dates :
            Date(w, [op |-> "complete", run |-> R, at |-> clock[w], versionAt |-> at])
      BY <1>2 DEF DateExtraction
    <2>2. WorkOK([op |-> "complete", run |-> R, at |-> clock[w], versionAt |-> at])
      BY <1>1 DEF WorkOK, Work
    <2> QED
      BY <1>1, <2>1, <2>2
  <1>3. CASE DateDecision(w)
    <2>1. PICK m \in Mentions, e \in Entities, creates \in BOOLEAN :
            Date(w, [op |-> "decide", mention |-> m, after |-> 0, outcome |-> "accepted",
                     entity |-> e, creates |-> creates, at |-> clock[w]])
      BY <1>3 DEF DateDecision
    <2>2. WorkOK([op |-> "decide", mention |-> m, after |-> 0, outcome |-> "accepted",
                  entity |-> e, creates |-> creates, at |-> clock[w]])
      BY <1>1, BoundAssumption DEF WorkOK, Work, Outcomes, Names
    <2> QED
      BY <1>1, <2>1, <2>2
  <1>4. CASE DateRejection(w)
    <2>1. PICK m \in Mentions :
            Date(w, [op |-> "decide", mention |-> m, after |-> 0, outcome |-> "rejected",
                     entity |-> Nobody, creates |-> FALSE, at |-> clock[w]])
      BY <1>4 DEF DateRejection
    <2>2. WorkOK([op |-> "decide", mention |-> m, after |-> 0, outcome |-> "rejected",
                  entity |-> Nobody, creates |-> FALSE, at |-> clock[w]])
      BY <1>1, BoundAssumption DEF WorkOK, Work, Outcomes, Names
    <2> QED
      BY <1>1, <2>1, <2>2
  <1>5. CASE DateCorrection(w)
    <2>1. PICK m \in Mentions, e \in Entities, i \in 1..(MaxDepth - 1) :
            Date(w, [op |-> "decide", mention |-> m, after |-> i, outcome |-> "accepted",
                     entity |-> e, creates |-> FALSE, at |-> clock[w]])
      BY <1>5 DEF DateCorrection
    <2>2. i \in 0..MaxDepth /\ i < MaxDepth
      BY BoundAssumption
    <2>3. WorkOK([op |-> "decide", mention |-> m, after |-> i, outcome |-> "accepted",
                  entity |-> e, creates |-> FALSE, at |-> clock[w]])
      BY <1>1, <2>2 DEF WorkOK, Work, Outcomes, Names
    <2> QED
      BY <1>1, <2>1, <2>3
  <1>6. CASE DateAdmission(w)
    <2>1. PICK t \in Targets, i \in 0..(MaxDepth - 1) :
            /\ i = 0 => t \in DecisionTargets
            /\ Date(w, [op |-> "admit", target |-> t, after |-> i, at |-> clock[w],
                        outcome |-> IF i % 2 = 0 THEN "admitted" ELSE "quarantined"])
      BY <1>6 DEF DateAdmission
    <2>2. i \in 0..MaxDepth /\ i < MaxDepth
      BY BoundAssumption
    <2>3. PICK out \in Admissions : out = IF i % 2 = 0 THEN "admitted" ELSE "quarantined"
      BY DEF Admissions
    <2>4. WorkOK([op |-> "admit", target |-> t, after |-> i, at |-> clock[w], outcome |-> out])
      BY <1>1, <2>1, <2>2 DEF WorkOK, Work
    <2> QED
      BY <1>1, <2>1, <2>3, <2>4
  <1> QED
    BY <1>2, <1>3, <1>4, <1>5, <1>6

LEMMA IdleIsWork == WorkOK(Idle)
  BY DEF WorkOK, Work, Idle

\* A commit adds its answers and disturbs nothing a query has got.
LEMMA CommitStep ==
  ASSUME SnapshotInv, NEW w \in Writers,
         CommitExtraction(w) \/ CommitDecision(w) \/ CommitAdmission(w)
  PROVE  /\ SnapshotInv'
         /\ \A q \in Queries : Settled(q.cutoff) => Answer(store', q) = Answer(store, q)
  <1>1. RowsOK(store) /\ WorkOK(writer[w]) /\ clock \in [Writers -> Dates]
        /\ writer \in [Writers -> Work] /\ \A v \in Writers : WorkOK(writer[v])
        /\ \A r \in Readers : ReaderOK(reader[r])
    BY DEF SnapshotInv
  <1>2. RowsOK(store') /\ \A T \in Dates : writer[w].at > T => Later(store, store', T)
    BY <1>1, ExtractionStep, DecisionStep, AdmissionStep
  <1>3. PICK S : Commit(w, S)
    BY DEF CommitExtraction, CommitDecision, CommitAdmission
  <1>4. /\ writer' = [writer EXCEPT ![w] = Idle] /\ clock' = clock
        /\ reader' = [r \in Readers |-> IF reader[r].pc # "idle"
                                         THEN [reader[r] EXCEPT !.answers = Append(@, Answer(store', reader[r].query))]
                                         ELSE reader[r]]
    <2>1. store' = S
      BY <1>3 DEF Commit
    <2> QED
      BY <1>3, <2>1 DEF Commit
  <1>5. PICK S2 \in Stores : S2 = store'
    BY <1>2 DEF RowsOK
  <1>6. ASSUME NEW r \in Readers PROVE ReaderOK(reader'[r])
    <2>1. PICK x : x = reader[r] /\ ReaderOK(x)
      BY <1>1
    <2>2. CASE x.pc = "idle"
      BY <1>4, <2>1, <2>2
    <2>3. CASE x.pc # "idle"
      <3>1. /\ DOMAIN x = {"pc", "query", "snapshot", "answers", "got"}
            /\ x.query \in Queries /\ x.answers \in Seq(AnswersOf)
        BY <2>1, <2>3 DEF ReaderOK, IsReaderState
      <3>2. PICK h \in Seq(AnswersOf) : h = Append(x.answers, Answer(S2, x.query))
                /\ Len(h) = Len(x.answers) + 1
                /\ \A i \in 1..Len(x.answers) : h[i] = x.answers[i]
        <4>1. PICK told \in AnswersOf : told = Answer(S2, x.query)
          BY <3>1 DEF AnswersOf
        <4>2. PICK g \in Seq(AnswersOf) : g = x.answers
          BY <3>1
        <4>3. /\ Append(g, told) \in Seq(AnswersOf) /\ Len(Append(g, told)) = Len(g) + 1
              /\ \A i \in 1..Len(g) : Append(g, told)[i] = g[i]
          BY AppendProperties
        <4> QED
          BY <4>1, <4>2, <4>3
      <3>3. PICK y : y = [x EXCEPT !.answers = h]
        OBVIOUS
      <3>4. y = reader'[r]
        BY <1>4, <1>5, <2>1, <2>3, <3>2, <3>3
      <3>5. /\ DOMAIN y = DOMAIN x /\ y.answers = h
            /\ y.pc = x.pc /\ y.query = x.query /\ y.snapshot = x.snapshot /\ y.got = x.got
        BY <3>1, <3>3
      <3>6. \E i \in DOMAIN y.answers : y.answers[i] = Answer(y.snapshot, y.query)
        <4>1. PICK i \in DOMAIN x.answers : x.answers[i] = Answer(x.snapshot, x.query)
          BY <2>1, <2>3 DEF ReaderOK
        <4>2. i \in 1..Len(x.answers) /\ Len(x.answers) \in Nat
          BY <3>1, <4>1, LenProperties
        <4>3. i \in DOMAIN h
          BY <3>2, <4>2, LenProperties
        <4> QED
          BY <3>2, <3>5, <4>1, <4>2, <4>3
      <3>7. IsReaderState(y)
        BY <2>1, <2>3, <3>5 DEF ReaderOK, IsReaderState
      <3>8. ReaderOK(y)
        BY <2>1, <2>3, <3>2, <3>5, <3>6, <3>7 DEF ReaderOK
      <3> QED
        BY <3>4, <3>8
    <2> QED
      BY <2>2, <2>3
  <1>7. SnapshotInv'
    <2>1. /\ writer' \in [Writers -> Work] /\ \A v \in Writers : WorkOK(writer'[v])
      BY <1>1, <1>4, IdleIsWork DEF WorkOK
    <2>2. reader' = [r \in Readers |-> reader'[r]]
      BY <1>4
    <2> QED
      BY <1>1, <1>2, <1>4, <1>6, <2>1, <2>2 DEF SnapshotInv, WorkOK, RowsOK
  <1>8. ASSUME NEW q \in Queries, Settled(q.cutoff) PROVE Answer(store', q) = Answer(store, q)
    <2>1. q.cutoff \in Dates
      BY <1>8, VerdictTypes DEF Settled
    <2>2. writer[w] # Idle
      BY DEF CommitExtraction, CommitDecision, CommitAdmission, Idle
    <2>3. writer[w].at > q.cutoff
      BY <1>8, <2>2 DEF Settled
    <2>4. PICK S1 \in Stores : S1 = store
      BY <1>1 DEF RowsOK
    <2>5. RowsOK(S1) /\ Later(S1, S2, q.cutoff)
      BY <1>1, <1>2, <1>5, <2>1, <2>3, <2>4
    <2>6. Answer(S2, q) = Answer(S1, q)
      BY <2>1, <2>5, AnswerStays
    <2> QED
      BY <1>5, <2>4, <2>6
  <1> QED
    BY <1>7, <1>8

-----------------------------------------------------------------------------
(* The statements of a query.                                              *)

\* A reader at work is a record of its five fields.
LEMMA ReaderFields ==
  ASSUME NEW x, ReaderOK(x), x.pc # "idle"
  PROVE  /\ DOMAIN x = {"pc", "query", "snapshot", "answers", "got"}
         /\ x.pc \in Statements \cup {"conflict"} /\ x.query \in Queries
         /\ x.snapshot \in Stores /\ x.got \in Verdicts
         /\ x.answers \in Seq(AnswersOf)
  BY DEF ReaderOK, IsReaderState

\* A statement changes what the transaction has got, and nothing it began with.
Continues(x, y) ==
  /\ DOMAIN y = DOMAIN x /\ y.query = x.query /\ y.snapshot = x.snapshot /\ y.answers = x.answers
  /\ y.pc \in Statements \cup {"conflict"} /\ y.got \in Verdicts /\ y.got.known = x.got.known

Begun(y) ==
  /\ IsReaderState(y) /\ RowsOK(y.snapshot) /\ y.answers \in Seq(AnswersOf)
  /\ \E i \in DOMAIN y.answers : y.answers[i] = Answer(y.snapshot, y.query)
  /\ y.got.known = y.query.entities \cap View(y.snapshot, y.query.cutoff).entities

LEMMA Continuation ==
  ASSUME NEW x, ReaderOK(x), x.pc # "idle", NEW y, Continues(x, y)
  PROVE  Begun(y)
  <1>1. IsReaderState(y)
    BY ReaderFields DEF Continues, IsReaderState
  <1> QED
    BY <1>1 DEF ReaderOK, Continues, Begun

LEMMA BeginsOK ==
  ASSUME RowsOK(store), NEW r \in Readers, reader = [q \in Readers |-> reader[q]], ReadEntities(r)
  PROVE  ReaderOK(reader'[r])
  <1>1. PICK q \in Queries :
          Statement(r, "idle",
            [pc |-> "authority", query |-> q, snapshot |-> store, answers |-> <<Answer(store, q)>>,
             got |-> [NoAnswer EXCEPT !.known = {e \in q.entities : Visible(store.entity[e], q.cutoff)}]])
    BY DEF ReadEntities
  <1>2. PICK S \in Stores : S = store
    BY DEF RowsOK
  <1>3. PICK known : known = {e \in q.entities : Visible(S.entity[e], q.cutoff)}
    OBVIOUS
  <1>4. PICK told \in AnswersOf : told = Answer(S, q)
    BY DEF AnswersOf
  <1>5. PICK y : y = reader'[r]
    OBVIOUS
  <1>6. /\ DOMAIN y = {"pc", "query", "snapshot", "answers", "got"}
        /\ y.pc = "authority" /\ y.query = q /\ y.snapshot = S /\ y.answers = <<told>>
        /\ y.got = [known |-> known, observations |-> {}, coverage |-> {}, cited |-> {}]
    <2>1. y = [pc |-> "authority", query |-> q, snapshot |-> S, answers |-> <<told>>,
               got |-> [NoAnswer EXCEPT !.known = known]]
      BY <1>1, <1>2, <1>3, <1>4, <1>5 DEF Statement
    <2>2. [NoAnswer EXCEPT !.known = known] = [known |-> known, observations |-> {}, coverage |-> {}, cited |-> {}]
      BY DEF NoAnswer
    <2> QED
      BY <2>1, <2>2
  <1>7. known = q.entities \cap View(S, q.cutoff).entities /\ known \in SUBSET Entities
    BY <1>3, VerdictTypes DEF View
  <1>8. <<told>> \in Seq(AnswersOf) /\ 1 \in DOMAIN <<told>> /\ <<told>>[1] = told
    OBVIOUS
  <1>9. IsReaderState(y)
    BY <1>6, <1>7 DEF IsReaderState, Statements, Verdicts
  <1>10. \E i \in DOMAIN y.answers : y.answers[i] = Answer(y.snapshot, y.query)
    BY <1>4, <1>6, <1>8
  <1>11. RowsOK(S) /\ y.answers \in Seq(AnswersOf) /\ y.got.known = known
    BY <1>2, <1>6, <1>8
  <1> QED
    BY <1>5, <1>6, <1>7, <1>9, <1>10, <1>11 DEF ReaderOK

LEMMA StatementOK ==
  ASSUME NEW r \in Readers, reader = [q \in Readers |-> reader[q]], ReaderOK(reader[r]),
         ReadAuthority(r) \/ ReadQualification(r) \/ ReadValues(r) \/ ReadEvidence(r)
  PROVE  ReaderOK(reader'[r])
  <1>1. PICK x : x = reader[r] /\ ReaderOK(x)
    OBVIOUS
  <1>2. PICK V : V = View(x.snapshot, x.query.cutoff)
    OBVIOUS
  <1>3. V = Seen(r) /\ x.snapshot = Snapshot(r)
    BY <1>1, <1>2 DEF Seen, Snapshot
  <1>4. x.pc # "idle"
    BY <1>1 DEF ReadAuthority, ReadQualification, ReadValues, ReadEvidence, Statement
  <1>5. /\ x.query \in Queries /\ x.got \in Verdicts /\ RowsOK(x.snapshot)
        /\ DOMAIN x = {"pc", "query", "snapshot", "answers", "got"}
    BY <1>1, <1>4, ReaderFields DEF ReaderOK, Begun
  <1>6. PICK y : y = reader'[r]
    OBVIOUS
  <1>8. ASSUME NEW pc \in Statements \cup {"conflict"}, y = [x EXCEPT !.pc = pc]
        PROVE  y.pc = pc /\ y.got = x.got /\ y.query = x.query /\ y.snapshot = x.snapshot /\ Begun(y)
    <2>1. y.pc = pc /\ y.got = x.got /\ Continues(x, y)
      BY <1>5, <1>8 DEF Continues
    <2> QED
      BY <1>1, <1>4, <2>1, Continuation DEF Continues
  <1>9. CASE ReadAuthority(r)
    <2>1. PICK pc \in {"qualification", "conflict"} :
            y = [x EXCEPT !.pc = pc] /\ (pc = "qualification" <=> ValidAuthority(V, x.query))
      BY <1>1, <1>3, <1>6, <1>9 DEF ReadAuthority, Statement
    <2>2. pc \in Statements \cup {"conflict"}
      BY DEF Statements
    <2> QED
      BY <1>2, <1>6, <1>8, <2>1, <2>2 DEF ReaderOK, Begun
  <1>10. CASE ReadQualification(r)
    <2>1. PICK retained : retained = Retained(V, x.query)
      OBVIOUS
    <2>2. PICK coverage : coverage = Coverage(V, x.query)
      OBVIOUS
    <2>3. x.pc = "qualification"
          /\ y = [x EXCEPT !.pc = "values", !.got.observations = retained, !.got.coverage = coverage]
      BY <1>1, <1>3, <1>6, <1>10, <2>1, <2>2 DEF ReadQualification, Statement
    <2>4. PICK g : g = [x.got EXCEPT !.observations = retained, !.coverage = coverage]
      OBVIOUS
    <2>5. /\ g \in Verdicts /\ g.known = x.got.known
          /\ g.observations = retained /\ g.coverage = coverage
      <3>1. PICK R : R = SUBSET [id : Observations, subject : SUBSET Entities,
                                 object : SUBSET Entities]
        OBVIOUS
      <3>2. PICK C : C = SUBSET [reason : {"unresolved-mention", "authority-excluded",
                                           "entity-filtered", "predicate-filtered"},
                                 entity : Entities, id : Observations]
        OBVIOUS
      <3>3. retained \in R
        BY <1>2, <1>5, <2>1, <3>1, VerdictTypes
      <3>4. coverage \in C
        BY <1>2, <1>5, <2>2, <3>2, VerdictTypes
      <3>5. Verdicts = [known : SUBSET Entities, observations : R, coverage : C,
                        cited : SUBSET (Observations \X Spans)]
        BY <3>1, <3>2 DEF Verdicts
      <3> QED
        BY <1>5, <2>4, <3>3, <3>4, <3>5
    <2>6. y = [x EXCEPT !.pc = "values", !.got = g]
      BY <1>5, <2>3, <2>4 DEF Verdicts
    <2>7. "values" \in Statements \cup {"conflict"}
      BY DEF Statements
    <2>8. y.pc = "values" /\ y.got = g /\ y.query = x.query /\ y.snapshot = x.snapshot /\ Begun(y)
      <3>1. y.pc = "values" /\ y.got = g /\ Continues(x, y)
        BY <1>5, <2>5, <2>6, <2>7 DEF Continues
      <3> QED
        BY <1>1, <1>4, <3>1, Continuation DEF Continues
    <2>9. ValidAuthority(V, x.query)
      BY <1>1, <1>2, <2>3 DEF ReaderOK
    <2> QED
      BY <1>2, <1>6, <2>1, <2>2, <2>5, <2>8, <2>9 DEF ReaderOK, Begun
  <1>11. CASE ReadValues(r)
    <2>1. x.pc = "values" /\ x.got.observations = Retained(V, x.query)
          /\ x.got.coverage = Coverage(V, x.query) /\ ValidAuthority(V, x.query)
      BY <1>1, <1>2, <1>11 DEF ReaderOK, ReadValues, Statement
    <2>2. {o.id : o \in x.got.observations} \subseteq V.observations
      BY <2>1, RetainedRows
    <2>3. y = [x EXCEPT !.pc = "evidence"]
      BY <1>1, <1>3, <1>6, <1>11, <2>2 DEF ReadValues, Statement
    <2>4. "evidence" \in Statements \cup {"conflict"}
      BY DEF Statements
    <2> QED
      BY <1>2, <1>6, <1>8, <2>1, <2>3, <2>4 DEF ReaderOK, Begun
  <1>12. CASE ReadEvidence(r)
    <2>1. x.pc = "evidence" /\ x.got.observations = Retained(V, x.query)
          /\ x.got.coverage = Coverage(V, x.query) /\ ValidAuthority(V, x.query)
      BY <1>1, <1>2, <1>12 DEF ReaderOK, ReadEvidence, Statement
    <2>2. PICK ids : ids = {o.id : o \in x.got.observations}
      OBVIOUS
    <2>3. PICK cited : cited = Cited(x.snapshot, x.query.cutoff, ids)
      OBVIOUS
    <2>4. Documented(ids, cited)
      BY <1>2, <1>5, <2>1, <2>2, <2>3, RetainedIsDocumented
    <2>5. y = [x EXCEPT !.got.cited = cited, !.pc = "commit"]
      BY <1>1, <1>3, <1>6, <1>12, <2>2, <2>3, <2>4 DEF ReadEvidence, Statement
    <2>6. PICK g : g = [x.got EXCEPT !.cited = cited]
      OBVIOUS
    <2>7. ids \subseteq Observations
      BY <1>5, <2>2 DEF Verdicts
    <2>8. cited \in SUBSET (Observations \X Spans)
      BY <2>3, <2>7 DEF Cited
    <2>9. /\ g \in Verdicts /\ g.known = x.got.known /\ g.cited = cited
          /\ g.observations = x.got.observations /\ g.coverage = x.got.coverage
      BY <1>5, <2>6, <2>8 DEF Verdicts
    <2>10. y = [x EXCEPT !.pc = "commit", !.got = g]
      BY <1>5, <2>5, <2>6 DEF Verdicts
    <2>11. "commit" \in Statements \cup {"conflict"}
      BY DEF Statements
    <2>12. y.pc = "commit" /\ y.got = g /\ y.query = x.query /\ y.snapshot = x.snapshot /\ Begun(y)
      <3>1. y.pc = "commit" /\ y.got = g /\ Continues(x, y)
        BY <1>5, <2>9, <2>10, <2>11 DEF Continues
      <3> QED
        BY <1>1, <1>4, <3>1, Continuation DEF Continues
    <2> QED
      BY <1>2, <1>6, <2>1, <2>2, <2>3, <2>9, <2>12 DEF ReaderOK, Begun
  <1> QED
    BY <1>9, <1>10, <1>11, <1>12

LEMMA QueryStep ==
  ASSUME SnapshotInv, NEW r \in Readers,
         \/ ReadEntities(r) \/ ReadAuthority(r) \/ ReadQualification(r)
         \/ ReadValues(r) \/ ReadEvidence(r) \/ Finish(r) \/ CancelQuery(r)
  PROVE  SnapshotInv' /\ UNCHANGED store
  <1>1. /\ UNCHANGED <<store, clock, writer>>
        /\ \E to : reader' = [reader EXCEPT ![r] = to]
    BY DEF ReadEntities, ReadAuthority, ReadQualification, ReadValues, ReadEvidence, Finish, CancelQuery,
           Statement
  <1>2. reader = [q \in Readers |-> reader[q]] /\ RowsOK(store) /\ \A q \in Readers : ReaderOK(reader[q])
    BY DEF SnapshotInv
  <1>3. ReaderOK(reader'[r])
    <2>1. CASE Finish(r) \/ CancelQuery(r)
      <3>1. reader'[r] = [pc |-> "idle"]
        BY <1>2, <2>1 DEF Finish, CancelQuery, Statement
      <3>2. ReaderOK([pc |-> "idle"])
        BY DEF ReaderOK, IsReaderState
      <3> QED
        BY <3>1, <3>2
    <2> QED
      BY <1>2, <2>1, BeginsOK, StatementOK
  <1>4. /\ \A q \in Readers \ {r} : reader'[q] = reader[q]
        /\ reader' = [q \in Readers |-> reader'[q]]
    BY <1>1, <1>2
  <1>5. \A q \in Readers : ReaderOK(reader'[q])
    BY <1>2, <1>3, <1>4
  <1> QED
    BY <1>1, <1>4, <1>5 DEF SnapshotInv

LEMMA SnapshotStep ==
  ASSUME SnapshotInv, [Next]_vars
  PROVE  /\ SnapshotInv'
         /\ \A q \in Queries : Settled(q.cutoff) => Answer(store', q) = Answer(store, q)
  <1>1. ASSUME UNCHANGED store PROVE \A q \in Queries : Answer(store', q) = Answer(store, q)
    BY <1>1
  <1>2. CASE UNCHANGED vars
    BY <1>1, <1>2 DEF vars, SnapshotInv
  <1>3. ASSUME NEW w \in Writers, Tick(w) PROVE SnapshotInv' /\ UNCHANGED store
    <2>1. clock' \in [Writers -> Dates]
      BY <1>3, BoundAssumption DEF Tick, SnapshotInv, Dates
    <2> QED
      BY <1>3, <2>1 DEF Tick, SnapshotInv
  <1>4. ASSUME NEW w \in Writers, NEW k, WorkOK(k), writer' = [writer EXCEPT ![w] = k],
               UNCHANGED <<store, clock, reader>>
        PROVE  SnapshotInv' /\ UNCHANGED store
    <2>1. writer' \in [Writers -> Work] /\ \A v \in Writers : WorkOK(writer'[v])
      BY <1>4 DEF SnapshotInv, WorkOK
    <2> QED
      BY <1>4, <2>1 DEF SnapshotInv
  <1>5. ASSUME NEW w \in Writers, Abandon(w) PROVE SnapshotInv' /\ UNCHANGED store
    BY <1>4, <1>5, IdleIsWork DEF Abandon
  <1>6. ASSUME NEW w \in Writers,
               DateExtraction(w) \/ DateDecision(w) \/ DateRejection(w) \/ DateCorrection(w) \/ DateAdmission(w)
        PROVE  SnapshotInv' /\ UNCHANGED store
    BY <1>4, <1>6, DatedWork
  <1> QED
    BY <1>1, <1>2, <1>3, <1>5, <1>6, CommitStep, QueryStep DEF Next

LEMMA SnapshotInvariant == Spec => []SnapshotInv
  <1>1. SnapshotInv /\ [Next]_vars => SnapshotInv'
    BY SnapshotStep
  <1> QED
    BY <1>1, SnapshotInit, PTL DEF Spec

-----------------------------------------------------------------------------
(* What it means for a query.                                              *)

\* The tables, the writers and the readers keep their types.
THEOREM SnapshotTypeCorrect == Spec => []TypeOK
  BY SnapshotInvTypes, SnapshotInvariant, PTL

\* The answer a query is about to hand over, and the conflict it reports, is
\* what the state its transaction began in answers in one instant, however many
\* writers commit between its statements.
THEOREM AnswersStayCoherent == Spec => []AnswersAreCoherent
  <1>1. SnapshotInv => AnswersAreCoherent
    <2> SUFFICES ASSUME SnapshotInv, NEW r \in Readers
                 PROVE  /\ Answering(r) => \E i \in DOMAIN reader[r].answers : Told(r) = reader[r].answers[i]
                        /\ reader[r].pc = "conflict" =>
                             \E i \in DOMAIN reader[r].answers : reader[r].answers[i].verdict = "conflict"
      BY DEF AnswersAreCoherent
    <2>1. ReaderOK(reader[r])
      BY DEF SnapshotInv
    <2>2. ASSUME Answering(r) PROVE Told(r) = Answer(reader[r].snapshot, reader[r].query)
      BY <2>1, <2>2 DEF ReaderOK, Answering, Told, Answer
    <2>3. ASSUME reader[r].pc = "conflict"
          PROVE  Answer(reader[r].snapshot, reader[r].query).verdict = "conflict"
      BY <2>1, <2>3 DEF ReaderOK, Answer
    <2> QED
      BY <2>1, <2>2, <2>3 DEF ReaderOK, Answering
  <1> QED
    BY <1>1, SnapshotInvariant, PTL

\* Once every clock and every dated write set is past a date, the answers as of
\* that date never change again.
THEOREM SettledStaysFinal == Spec => SettledAnswersAreFinal
  <1>1. SnapshotInv /\ [Next]_vars =>
          [\A q \in Queries : Settled(q.cutoff) => Answer(store', q) = Answer(store, q)]_store
    BY SnapshotStep
  <1> QED
    BY <1>1, SnapshotInvariant, PTL DEF Spec, SettledAnswersAreFinal

-----------------------------------------------------------------------------
(* The other ways of finding the same rows.                                *)

\* The authority statement's joins reach every observation that qualifies.
LEMMA RetainedIsRelevant ==
  ASSUME NEW V, NEW q, NEW o \in Related(V, q)
  PROVE  o \in RelevantObservations(V, q)
  <1>1. PICK x \in Endpoints(o), e \in q.entities : e \in NamedBy(V, x)
    BY DEF Related, NamedEndpoints
  <1>2. CASE x \in Mentions
    <2>1. PICK d \in EffectiveDecisions(V) : d.mention = x /\ d.entity = e
      BY <1>1, <1>2 DEF NamedBy, Resolved
    <2>2. x \in RequestedMentions(V, q)
      BY <1>1, <2>1 DEF EffectiveDecisions, RequestedMentions
    <2> QED
      BY <1>1, <2>2, RetainedRows DEF RelevantObservations
  <1>3. CASE x \notin Mentions
    BY <1>1, <1>3, RetainedRows DEF NamedBy, RelevantObservations
  <1> QED
    BY <1>2, <1>3

LEMMA AnswerIsValidated ==
  ASSUME NEW V, NEW q, ValidAuthority(V, q), NEW ids, ids = {r.id : r \in Retained(V, q)},
         NEW ms, ms = UNION {MentionsOf(o) : o \in ids}
  PROVE  /\ \A d \in V.decisions : d.mention \in ms => DecisionInOrder(V, d)
         /\ \A a \in V.admissions :
              \/ a.target \in ids \cup ms
              \/ \E d \in V.decisions : d.mention \in ms /\ a.target = <<d.mention, d.depth>>
              => AdmissionInOrder(V, a)
  <1>1. \A o \in ids : /\ o \in RelevantObservations(V, q)
                       /\ \A m \in MentionsOf(o) : Resolved(V, m) # {}
    BY RetainedRows, RetainedIsRelevant, RetainedMeans
  <1>2. ASSUME NEW m \in ms PROVE m \in RelevantMentions(V, q) /\ m \in V.mentions
    <2>1. PICK o \in ids : m \in MentionsOf(o)
      OBVIOUS
    <2>2. PICK d \in EffectiveDecisions(V) : d.mention = m
      BY <1>1, <2>1 DEF Resolved
    <2>3. m \in V.mentions
      BY <2>2 DEF EffectiveDecisions
    <2> QED
      BY <1>1, <2>1, <2>3 DEF RelevantMentions
  <1>3. \A d \in V.decisions : d.mention \in ms => d \in RelevantDecisions(V, q)
    BY <1>2 DEF RelevantDecisions
  <1>4. ids \cup ms \subseteq RelevantTargets(V, q)
    BY <1>1, <1>2 DEF RelevantTargets
  <1>5. \A d \in V.decisions : d.mention \in ms => <<d.mention, d.depth>> \in RelevantTargets(V, q)
    BY <1>3 DEF RelevantTargets
  <1>6. \A d \in V.decisions : d.mention \in ms => DecisionInOrder(V, d)
    BY <1>3 DEF ValidAuthority
  <1>7. ASSUME NEW a \in V.admissions,
               a.target \in ids \cup ms
                 \/ \E d \in V.decisions : d.mention \in ms /\ a.target = <<d.mention, d.depth>>
        PROVE  AdmissionInOrder(V, a)
    <2>1. a.target \in RelevantTargets(V, q)
      BY <1>4, <1>5, <1>7
    <2> QED
      BY <2>1 DEF ValidAuthority
  <1> QED
    BY <1>6, <1>7

\* What is current is the last of each chain, whichever statement finds it.
LEMMA LastIsDeepest ==
  ASSUME NEW S \in Stores
  PROVE  /\ \A d \in View(S, Current).decisions :
              (\A c \in View(S, Current).decisions : c.mention = d.mention => c.depth <= d.depth) =>
                /\ d.mention \in Mentions /\ d.depth = Len(S.chain[d.mention])
                /\ d.depth \in DOMAIN S.chain[d.mention]
                /\ S.chain[d.mention][d.depth].outcome = d.outcome
                /\ S.chain[d.mention][d.depth].entity = d.entity
         /\ \A a \in View(S, Current).admissions :
              (\A b \in View(S, Current).admissions : b.target = a.target => b.depth <= a.depth) =>
                /\ a.depth = Len(S.admission[a.target]) /\ S.admission[a.target] # <<>>
                /\ S.admission[a.target][a.depth].outcome = a.outcome
  <1> DEFINE V == View(S, Current)
  <1>1. /\ \A x : x \in V.decisions <=> x \in Decisions(S) /\ Visible(x.at, Current)
        /\ \A x : x \in V.admissions <=> x \in AdmissionDecisions(S) /\ Visible(x.at, Current)
    BY DEF View
  <1>2. \A at \in Dates : Visible(at, Current)
    BY DatesAreNumbers DEF Visible, InScope
  <1> HIDE DEF V
  <1>3. ASSUME NEW d \in V.decisions, \A c \in V.decisions : c.mention = d.mention => c.depth <= d.depth
        PROVE  /\ d.mention \in Mentions /\ d.depth = Len(S.chain[d.mention])
               /\ d.depth \in DOMAIN S.chain[d.mention]
               /\ S.chain[d.mention][d.depth].outcome = d.outcome
               /\ S.chain[d.mention][d.depth].entity = d.entity
    <2>1. PICK m \in Mentions, i \in 1..MaxDepth :
            /\ i \in DOMAIN S.chain[m]
            /\ d = [mention |-> m, depth |-> i, outcome |-> S.chain[m][i].outcome,
                    entity |-> S.chain[m][i].entity, at |-> S.chain[m][i].at]
      BY <1>1, <1>3, DecisionRows
    <2>2. PICK h \in Chain : h = S.chain[m]
      BY StoreTypes
    <2>3. h \in Seq(DecisionRow) /\ Len(h) <= MaxDepth
      BY ChainsAreSequences
    <2>4. DOMAIN h = 1..Len(h) /\ Len(h) \in Nat /\ i \in 1..Len(h)
      BY <2>1, <2>2, <2>3, LenProperties
    <2>5. PICK n \in 1..MaxDepth : n = Len(h) /\ n \in DOMAIN S.chain[m]
      BY <2>2, <2>3, <2>4, BoundAssumption
    <2>6. S.chain[m][n].at \in Dates
      BY <2>5, StoreDates DEF DecisionRow
    <2>7. PICK c : c = [mention |-> m, depth |-> n, outcome |-> S.chain[m][n].outcome,
                        entity |-> S.chain[m][n].entity, at |-> S.chain[m][n].at]
      OBVIOUS
    <2>8. c \in Decisions(S)
      BY <2>5, <2>7, DecisionRows
    <2>9. c \in V.decisions /\ c.mention = d.mention /\ c.depth = n /\ d.depth = i
      BY <1>1, <1>2, <2>1, <2>6, <2>7, <2>8
    <2>10. n <= i
      BY <1>3, <2>9
    <2>11. n = i
      <3>1. n \in Nat /\ i \in Nat /\ i <= n
        BY <2>4, <2>5
      <3> QED
        BY <2>10, <3>1
    <2> QED
      BY <2>1, <2>2, <2>5, <2>11
  <1>4. ASSUME NEW a \in V.admissions, \A b \in V.admissions : b.target = a.target => b.depth <= a.depth
        PROVE  /\ a.depth = Len(S.admission[a.target]) /\ S.admission[a.target] # <<>>
               /\ S.admission[a.target][a.depth].outcome = a.outcome
    <2>1. PICK t \in Targets, i \in 1..MaxDepth :
            /\ i \in DOMAIN S.admission[t]
            /\ a = [target |-> t, depth |-> i, outcome |-> S.admission[t][i].outcome,
                    at |-> S.admission[t][i].at]
      BY <1>1, <1>4, AdmissionRows
    <2>2. PICK h \in AdmissionChain : h = S.admission[t]
      BY StoreTypes
    <2>3. h \in Seq(AdmissionRow) /\ Len(h) <= MaxDepth
      BY ChainsAreSequences
    <2>4. DOMAIN h = 1..Len(h) /\ Len(h) \in Nat /\ i \in 1..Len(h)
      BY <2>1, <2>2, <2>3, LenProperties
    <2>5. PICK n \in 1..MaxDepth : n = Len(h) /\ n \in DOMAIN S.admission[t]
      BY <2>2, <2>3, <2>4, BoundAssumption
    <2>6. S.admission[t][n].at \in Dates
      BY <2>5, StoreDates DEF AdmissionRow
    <2>7. PICK b : b = [target |-> t, depth |-> n, outcome |-> S.admission[t][n].outcome,
                        at |-> S.admission[t][n].at]
      OBVIOUS
    <2>8. b \in AdmissionDecisions(S)
      BY <2>5, <2>7, AdmissionRows
    <2>9. b \in V.admissions /\ b.target = a.target /\ b.depth = n /\ a.depth = i
      BY <1>1, <1>2, <2>1, <2>6, <2>7, <2>8
    <2>10. n <= i
      BY <1>4, <2>9
    <2>11. n = i /\ S.admission[t] # <<>>
      BY <2>1, <2>2, <2>4, <2>5, <2>10
    <2> QED
      BY <2>1, <2>2, <2>5, <2>11
  <1> QED
    BY <1>3, <1>4 DEF V

LEMMA CurrentEntityIsNamed ==
  ASSUME NEW S \in Stores, NEW x, NEW e \in EntityOf(View(S, Current), x)
  PROVE  CurrentEntities(S, x) = {e}
  <1> DEFINE V == View(S, Current)
  <1>1. CASE x \in Mentions
    <2>1. PICK d \in EffectiveDecisions(V) : d.mention = x /\ d.entity = e
      BY <1>1 DEF EntityOf, Resolved
    <2>2. /\ d \in V.decisions /\ d.outcome = "accepted"
          /\ \A c \in V.decisions : c.mention = d.mention => c.depth <= d.depth
      BY <2>1 DEF EffectiveDecisions
    <2>3. PICK h : h = S.chain[x]
      OBVIOUS
    <2>4. /\ Len(h) \in DOMAIN h /\ h[Len(h)].outcome = "accepted" /\ h[Len(h)].entity = e
      BY <2>1, <2>2, <2>3, LastIsDeepest
    <2>5. CurrentEntities(S, x) = {h[i].entity : i \in {i \in DOMAIN h : i = Len(h) /\ h[i].outcome = "accepted"}}
      BY <1>1, <2>3 DEF CurrentEntities
    <2> QED
      BY <2>4, <2>5
  <1>2. CASE x \notin Mentions
    <2>1. V.entities \subseteq Entities
      BY DEF View
    <2> QED
      BY <1>2, <2>1 DEF EntityOf, CurrentEntities
  <1> QED
    BY <1>1, <1>2

\* No answer rests on a chain that goes back in time: the authority statement
\* looked at every decision and admission of what is retained.
THEOREM AnswersStayValidated == Spec => []AnswersAreValidated
  <1>1. SnapshotInv => AnswersAreValidated
    <2> SUFFICES ASSUME SnapshotInv, NEW r \in Readers, Answering(r),
                        NEW V, V = Seen(r), NEW ids, ids = {o.id : o \in reader[r].got.observations},
                        NEW ms, ms = UNION {MentionsOf(o) : o \in ids}
                 PROVE  /\ \A d \in V.decisions : d.mention \in ms => DecisionInOrder(V, d)
                        /\ \A a \in V.admissions :
                             \/ a.target \in ids \cup ms
                             \/ \E d \in V.decisions : d.mention \in ms /\ a.target = <<d.mention, d.depth>>
                             => AdmissionInOrder(V, a)
      BY DEF AnswersAreValidated
    <2>1. PICK q : q = reader[r].query
      OBVIOUS
    <2>2. ValidAuthority(V, q) /\ reader[r].got.observations = Retained(V, q)
      BY <2>1 DEF SnapshotInv, ReaderOK, Answering, Seen, Snapshot
    <2>3. ids = {o.id : o \in Retained(V, q)}
      BY <2>2
    <2> QED
      BY <2>2, <2>3, AnswerIsValidated
  <1> QED
    BY <1>1, SnapshotInvariant, PTL

\* What a query retains between two entities as of now is in the list of the
\* pair's observations, which other statements compute.
THEOREM RetainedStaysListed == Spec => []RetainedIsListed
  <1>1. SnapshotInv => RetainedIsListed
    <2> SUFFICES ASSUME SnapshotInv, NEW r \in Readers, Answering(r), reader[r].query.cutoff = Current,
                        NEW told \in reader[r].got.observations,
                        NEW s \in told.subject, NEW o \in told.object
                 PROVE  told.id \in PairObservations(Snapshot(r), s, o)
      BY DEF RetainedIsListed
    <2>1. PICK S \in Stores : S = Snapshot(r)
      BY DEF SnapshotInv, ReaderOK, Answering, Snapshot, RowsOK
    <2>2. PICK V : V = View(S, Current)
      OBVIOUS
    <2>3. PICK q : q = reader[r].query
      OBVIOUS
    <2>4. told \in Retained(V, q)
      BY <2>1, <2>2, <2>3 DEF SnapshotInv, ReaderOK, Answering, Snapshot
    <2>5. PICK id \in Related(V, q) :
            /\ Classification(V, q, id) = "retained" /\ told.id = id
            /\ told.subject = EntityOf(V, Subject[id]) /\ told.object = EntityOf(V, Object[id])
      BY <2>4 DEF Retained
    <2>6. id \in Observations
      BY <2>2, <2>5, RetainedRows DEF View
    <2>7. Admitted(V, id)
      BY <2>5, RetainedMeans
    <2>8. PICK a \in V.admissions : /\ a.target = id /\ a.outcome = "admitted"
                                    /\ \A b \in V.admissions : b.target = id => b.depth <= a.depth
      BY <2>7 DEF Admitted
    <2>9. S.admission[id] # <<>> /\ S.admission[id][Len(S.admission[id])].outcome = "admitted"
      BY <2>2, <2>8, LastIsDeepest
    <2>10. CurrentEntities(S, Subject[id]) = {s} /\ CurrentEntities(S, Object[id]) = {o}
      BY <2>2, <2>5, CurrentEntityIsNamed
    <2> QED
      BY <2>1, <2>5, <2>6, <2>9, <2>10 DEF PairObservations
  <1> QED
    BY <1>1, SnapshotInvariant, PTL
=============================================================================

--------------------------- MODULE TemporalSnapshot ---------------------------
(***************************************************************************)
(* What a temporal query is told about the past.  Every row of the store   *)
(* carries the date its writer read from its own clock, before the         *)
(* transaction that inserts it; a query as of a cutoff sees the rows dated *)
(* no later.  The reader asks several statements inside one repeatable-    *)
(* read transaction (adapters/postgres/temporal_query.go); the writers are *)
(* the extraction worker, the reviewer, and whoever calls the adapter's    *)
(* admission API directly.                                                 *)
(***************************************************************************)
EXTENDS KnowledgeScope, Sequences, FiniteSets

CONSTANTS
  Entities, Mentions, Spans, Predicates,
  Founders,          \* entities recorded before the first step
  Observations,
  Subject, Object,   \* [Observations -> Mentions \cup Entities \cup {NoTerm}]
  PredicateOf,       \* [Observations -> Predicates]
  SpansOf,           \* [Observations -> SUBSET Spans]: its evidence links
  Runs,              \* sets of observations that one extraction completes
  Writers,           \* processes, each on a machine with its own clock
  Curators,          \* the writers that also call the admission API (none in cmd/)
  Readers,
  Queries,           \* the normalised selections asked
  MaxTime,           \* bound: clocks stop here
  MaxSkew,           \* bound: how far two clocks are apart
  MaxDepth,          \* bound: decisions in one chain
  MaxDecisions,      \* bound: decisions in all chains
  MaxLate,           \* bound: commits while a query is at work
  NoTerm,            \* an absent or text term
  Nobody             \* no entity

Dates == 1..MaxTime
Never == 0           \* the date of a row that is not there

Endpoints(o) == {Subject[o], Object[o]}
MentionsOf(o) == Endpoints(o) \cap Mentions
RunMentions(R) == UNION {MentionsOf(o) : o \in R}
RunSpans(R) == UNION {SpansOf[o] : o \in R}

\* An identity decision is the i-th of its mention's chain; with mentions and
\* observations it is what an admission decision is about.
DecisionTargets == Mentions \X (1..MaxDepth)
Targets == Mentions \cup Observations \cup DecisionTargets

Outcomes == {"accepted", "rejected"}
Admissions == {"admitted", "quarantined"}

\* "match" is EntityMatch: all requested entities are endpoints, or any is.
Query == [entities : SUBSET Entities \ {{}}, match : {"all", "any"},
          predicates : SUBSET Predicates, cutoff : Dates \cup {Current}]

ASSUME DataAssumption ==
  /\ Subject \in [Observations -> Mentions \cup Entities \cup {NoTerm}]
  /\ Object \in [Observations -> Mentions \cup Entities \cup {NoTerm}]
  /\ PredicateOf \in [Observations -> Predicates]
  /\ SpansOf \in [Observations -> SUBSET Spans]
  /\ Runs \subseteq SUBSET Observations
  /\ Founders \subseteq Entities
\* One admission_targets row is about one thing.
ASSUME TargetAssumption ==
  /\ Mentions \cap Observations = {}
  /\ (Mentions \cup Observations) \cap DecisionTargets = {}
ASSUME ReadersAssumption ==
  /\ Curators \subseteq Writers
  /\ Queries \subseteq Query
ASSUME BoundAssumption ==
  /\ MaxTime \in Nat \ {0} /\ MaxDepth \in Nat \ {0}
  /\ {MaxSkew, MaxDecisions, MaxLate} \subseteq Nat
  /\ Current \notin Dates

\* An accepted decision names an entity, a rejected one names nobody.
Names(d) == IF d.outcome = "accepted" THEN d.entity \in Entities ELSE d.entity = Nobody

DecisionRow ==
  {d \in [outcome : Outcomes, entity : Entities \cup {Nobody}, at : Dates] : Names(d)}

Chain == UNION {[1..n -> DecisionRow] : n \in 0..MaxDepth}
AdmissionChain == UNION {[1..n -> [outcome : Admissions, at : Dates]] : n \in 0..MaxDepth}

\* The tables: the date of each immutable row, and the chains of decisions. A
\* mention's proposal is inserted with it and has its date.
Stores == [entity : [Entities -> Dates \cup {Never}],
           mention : [Mentions -> Dates \cup {Never}],
           observation : [Observations -> Dates \cup {Never}],
           span : [Spans -> Dates \cup {Never}],
           chain : [Mentions -> Chain],
           admission : [Targets -> AdmissionChain]]

FirstStore ==
  [entity |-> [e \in Entities |-> IF e \in Founders THEN 1 ELSE Never], mention |-> [m \in Mentions |-> Never],
   observation |-> [o \in Observations |-> Never], span |-> [s \in Spans |-> Never],
   chain |-> [m \in Mentions |-> <<>>], admission |-> [t \in Targets |-> <<>>]]

-----------------------------------------------------------------------------
(* What a cutoff shows, and what the statements compute from it.           *)

Visible(at, T) == at # Never /\ InScope(T, at)

Decisions(S) == {[mention |-> d[1], depth |-> d[2], outcome |-> S.chain[d[1]][d[2]].outcome,
                  entity |-> S.chain[d[1]][d[2]].entity, at |-> S.chain[d[1]][d[2]].at] :
                   d \in {d \in DecisionTargets : d[2] \in DOMAIN S.chain[d[1]]}}

AdmissionDecisions(S) ==
  {[target |-> a[1], depth |-> a[2], outcome |-> S.admission[a[1]][a[2]].outcome,
    at |-> S.admission[a[1]][a[2]].at] :
     a \in {a \in Targets \X (1..MaxDepth) : a[2] \in DOMAIN S.admission[a[1]]}}

\* A link is not dated: the observation is evident when no span it cites is
\* dated after the cutoff.
Evident(S, T, o) ==
  SpansOf[o] # {} /\ \A s \in SpansOf[o] : InScope(T, S.span[s])

\* Mutant: the decisions' common table expression forgets the cutoff.
ViewOfAllDecisions(S, T) ==
  [entities     |-> {e \in Entities : Visible(S.entity[e], T)},
   mentions     |-> {m \in Mentions : Visible(S.mention[m], T)},
   observations |-> {o \in Observations : Visible(S.observation[o], T)},
   evident      |-> {o \in Observations : Visible(S.observation[o], T) /\ Evident(S, T, o)},
   decisions    |-> Decisions(S),
   admissions   |-> {a \in AdmissionDecisions(S) : Visible(a.at, T)}]

\* The visible_* common table expressions of every statement.
View(S, T) ==
  [entities     |-> {e \in Entities : Visible(S.entity[e], T)},
   mentions     |-> {m \in Mentions : Visible(S.mention[m], T)},
   observations |-> {o \in Observations : Visible(S.observation[o], T)},
   evident      |-> {o \in Observations : Visible(S.observation[o], T) /\ Evident(S, T, o)},
   decisions    |-> {d \in Decisions(S) : Visible(d.at, T)},
   admissions   |-> {a \in AdmissionDecisions(S) : Visible(a.at, T)}]

\* effective_admissions: the deepest visible decision, if the target's own row
\* (dated with the first decision) is visible.
Admitted(V, t) ==
  \E a \in V.admissions :
    /\ a.target = t /\ a.outcome = "admitted"
    /\ \A b \in V.admissions : b.target = t => b.depth <= a.depth
    /\ \E b \in V.admissions : b.target = t /\ b.depth = 1

EffectiveDecisions(V) ==
  {d \in V.decisions : /\ d.outcome = "accepted"
                       /\ d.mention \in V.mentions /\ d.entity \in V.entities
                       /\ \A c \in V.decisions : c.mention = d.mention => c.depth <= d.depth}

\* resolved_mentions: the mention and the decision both need their own
\* admission.  One proposal per mention: at most one entity.
Resolved(V, m) ==
  {d.entity : d \in {d \in EffectiveDecisions(V) : /\ d.mention = m
                                                   /\ Admitted(V, m)
                                                   /\ Admitted(V, <<m, d.depth>>)}}

EntityOf(V, x) == IF x \in Mentions THEN Resolved(V, x) ELSE {x} \cap V.entities

\* The entity a coverage row is about: a direct term counts though its entity
\* is not visible.
NamedBy(V, x) == IF x \in Mentions THEN Resolved(V, x) ELSE {x} \cap Entities

ResolvedEndpoints(V, o) == UNION {EntityOf(V, x) : x \in Endpoints(o)}
NamedEndpoints(V, o) == UNION {NamedBy(V, x) : x \in Endpoints(o)}

Matches(V, q, o) ==
  IF q.match = "all" THEN q.entities \subseteq ResolvedEndpoints(V, o)
                     ELSE q.entities \cap ResolvedEndpoints(V, o) # {}

Classification(V, q, o) ==
  IF q.predicates # {} /\ PredicateOf[o] \notin q.predicates THEN "predicate-filtered"
  ELSE IF \E x \in Endpoints(o) \cap Entities : x \notin V.entities THEN "authority-excluded"
  ELSE IF \E m \in MentionsOf(o) : Resolved(V, m) = {} THEN "unresolved-mention"
  ELSE IF ~Matches(V, q, o) THEN "entity-filtered"
  ELSE IF ~Admitted(V, o) \/ o \notin V.evident THEN "authority-excluded"
  ELSE "retained"

Related(V, q) == {o \in V.observations : NamedEndpoints(V, o) \cap q.entities # {}}

Retained(V, q) ==
  {[id |-> o, subject |-> EntityOf(V, Subject[o]), object |-> EntityOf(V, Object[o])] :
     o \in {o \in Related(V, q) : Classification(V, q, o) = "retained"}}

Coverage(V, q) ==
  UNION {{[reason |-> Classification(V, q, o), entity |-> e, id |-> o] :
            e \in NamedEndpoints(V, o) \cap q.entities} :
         o \in {o \in Related(V, q) : Classification(V, q, o) # "retained"}}

\* temporalEvidenceRecordsSQL: the links of the asked observations whose
\* observation and span are both visible.
Cited(S, T, ids) ==
  {c \in ids \X Spans : /\ c[2] \in SpansOf[c[1]]
                        /\ Visible(S.observation[c[1]], T) /\ Visible(S.span[c[2]], T)}

-----------------------------------------------------------------------------
(* The authority statement: it validates every chain the answer may rest   *)
(* on, and finds those chains without asking what is admitted.             *)

RequestedMentions(V, q) ==
  {d.mention : d \in {d \in V.decisions : /\ d.outcome = "accepted"
                                          /\ d.entity \in q.entities \cap V.entities
                                          /\ d.mention \in V.mentions}}

RelevantObservations(V, q) ==
  LET terms == q.entities \cup RequestedMentions(V, q)
  IN {o \in V.observations : Endpoints(o) \cap terms # {}}

\* Mutant: the objects' branch of the UNION is missing.
RelevantSubjects(V, q) == {Subject[o] : o \in RelevantObservations(V, q)} \cap Mentions

RelevantMentions(V, q) == UNION {MentionsOf(o) : o \in RelevantObservations(V, q)}

RelevantDecisions(V, q) ==
  LET ms == RelevantMentions(V, q) \cap V.mentions IN {d \in V.decisions : d.mention \in ms}

RelevantTargets(V, q) ==
  RelevantObservations(V, q) \cup RelevantMentions(V, q)
    \cup {<<d.mention, d.depth>> : d \in RelevantDecisions(V, q)}

\* validateTemporalRawAuthorityChains: a visible successor needs a visible
\* predecessor that is dated no later.
DecisionInOrder(V, d) ==
  d.depth = 1 \/ \E p \in V.decisions : /\ p.mention = d.mention /\ p.depth = d.depth - 1
                                        /\ p.at <= d.at
AdmissionInOrder(V, a) ==
  a.depth = 1 \/ \E p \in V.admissions : /\ p.target = a.target /\ p.depth = a.depth - 1
                                         /\ p.at <= a.at

ValidAuthority(V, q) ==
  LET targets == RelevantTargets(V, q) IN
  /\ \A d \in RelevantDecisions(V, q) : DecisionInOrder(V, d)
  /\ \A a \in V.admissions : a.target \in targets => AdmissionInOrder(V, a)

\* What one store answers, asked in one instant.
Answer(S, q) ==
  LET V == View(S, q.cutoff) IN
  IF ~ValidAuthority(V, q) THEN [verdict |-> "conflict"]
  ELSE LET retained == Retained(V, q)
       IN [verdict |-> "answered", known |-> q.entities \cap V.entities,
           observations |-> retained, coverage |-> Coverage(V, q),
           cited |-> Cited(S, q.cutoff, {r.id : r \in retained})]

-----------------------------------------------------------------------------
(* adapters/postgres/query.go: the list of a pair's current observations is *)
(* found by other statements, one observation and one term at a time.       *)

\* Mutant: a decision that a correction superseded still names its entity.
EntitiesEverAccepted(S, x) ==
  IF x \in Mentions
    THEN {S.chain[x][i].entity : i \in {i \in DOMAIN S.chain[x] : S.chain[x][i].outcome = "accepted"}}
    ELSE {x} \cap Entities

CurrentEntities(S, x) ==
  IF x \in Mentions
    THEN {S.chain[x][i].entity : i \in {i \in DOMAIN S.chain[x] : /\ i = Len(S.chain[x])
                                                              /\ S.chain[x][i].outcome = "accepted"}}
    ELSE {x} \cap Entities

PairObservations(S, subject, object) ==
  {o \in Observations :
     /\ S.admission[o] # <<>>
     /\ S.admission[o][Len(S.admission[o])].outcome = "admitted"
     /\ CurrentEntities(S, Subject[o]) = {subject}
     /\ CurrentEntities(S, Object[o]) = {object}}

-----------------------------------------------------------------------------
VARIABLES
  store,     \* Stores: what is committed
  clock,     \* [Writers -> Dates]: what each writer's machine shows
  writer,    \* [Writers -> Work]: the write set a writer has dated
  reader     \* [Readers -> ...]: the statements a query has asked so far

vars == <<store, clock, writer, reader>>

Idle == [op |-> "idle"]

Work ==
  {Idle}
    \cup [op : {"complete"}, run : Runs, at : Dates, versionAt : Dates]
    \cup {k \in [op : {"decide"}, mention : Mentions, after : 0..MaxDepth, outcome : Outcomes,
                 entity : Entities \cup {Nobody}, creates : BOOLEAN, at : Dates] : Names(k)}
    \cup [op : {"admit"}, target : Targets, after : 0..MaxDepth, outcome : Admissions, at : Dates]

Statements == {"authority", "qualification", "values", "evidence", "commit"}

NoAnswer == [known |-> {}, observations |-> {}, coverage |-> {}, cited |-> {}]

Verdicts == [known : SUBSET Entities,
             observations : SUBSET [id : Observations, subject : SUBSET Entities,
                                    object : SUBSET Entities],
             coverage : SUBSET [reason : {"unresolved-mention", "authority-excluded",
                                          "entity-filtered", "predicate-filtered"},
                                entity : Entities, id : Observations],
             cited : SUBSET (Observations \X Spans)]

\* "answers" is a history variable: what each store committed since the query
\* began would have answered in one instant.
IsReaderState(r) ==
  \/ r = [pc |-> "idle"]
  \/ /\ DOMAIN r = {"pc", "query", "snapshot", "answers", "got"}
     /\ r.pc \in Statements \cup {"conflict"} /\ r.query \in Queries
     /\ r.snapshot \in Stores /\ r.got \in Verdicts

Init ==
  /\ store = FirstStore
  /\ clock = [w \in Writers |-> 1]
  /\ writer = [w \in Writers |-> Idle]
  /\ reader = [r \in Readers |-> [pc |-> "idle"]]

Tick(w) ==
  /\ clock[w] < MaxTime
  /\ \A v \in Writers : clock[w] - clock[v] < MaxSkew
  /\ clock' = [clock EXCEPT ![w] = @ + 1]
  /\ UNCHANGED <<store, writer, reader>>

DecisionCount(S) == Cardinality(Decisions(S)) + Cardinality(AdmissionDecisions(S))

\* Past the bound nothing could be stored, and nothing is dated.
Date(w, work) ==
  /\ writer[w] = Idle
  /\ DecisionCount(store) < MaxDecisions
  /\ writer' = [writer EXCEPT ![w] = work]
  /\ UNCHANGED <<store, clock, reader>>

\* A write set that could not be stored any more is not dated: it would only
\* fail.
\* The worker dates the completion and builds its write set; the spans carry
\* the date of the document version, recorded earlier by some machine.
DateExtraction(w) ==
  /\ \E R \in Runs, at \in Dates :
       /\ \A o \in R : store.observation[o] = Never
       /\ \E v \in Writers : at <= clock[v]
       /\ Date(w, [op |-> "complete", run |-> R, at |-> clock[w], versionAt |-> at])

\* A reviewer (or the directory worker) has loaded the proposal and dates an
\* initial decision; CreatePerson brings its entity along.
DateDecision(w) ==
  /\ \E m \in Mentions, e \in Entities, creates \in BOOLEAN :
       /\ store.mention[m] # Never /\ store.chain[m] = <<>>
       /\ creates <=> store.entity[e] = Never
       /\ Date(w, [op |-> "decide", mention |-> m, after |-> 0, outcome |-> "accepted",
                   entity |-> e, creates |-> creates, at |-> clock[w]])

\* Mutant: the candidate's entity stays in the rejection.
DateRejectionOfCandidate(w) ==
  /\ \E m \in Mentions, e \in Entities :
       /\ store.mention[m] # Never /\ store.chain[m] = <<>>
       /\ Date(w, [op |-> "decide", mention |-> m, after |-> 0, outcome |-> "rejected",
                   entity |-> e, creates |-> FALSE, at |-> clock[w]])

\* RejectReviewProposal names nobody.
DateRejection(w) ==
  /\ \E m \in Mentions :
       /\ store.mention[m] # Never /\ store.chain[m] = <<>>
       /\ Date(w, [op |-> "decide", mention |-> m, after |-> 0, outcome |-> "rejected",
                   entity |-> Nobody, creates |-> FALSE, at |-> clock[w]])

\* CorrectReviewDecision loads the decision it supersedes before it reads the
\* clock.
DateCorrection(w) ==
  /\ \E m \in Mentions, e \in Entities, i \in 1..(MaxDepth - 1) :
       /\ i = Len(store.chain[m])
       /\ store.entity[e] # Never
       /\ Date(w, [op |-> "decide", mention |-> m, after |-> i, outcome |-> "accepted",
                   entity |-> e, creates |-> FALSE, at |-> clock[w]])

\* A curator admits an identity decision, or quarantines what is admitted.
DateAdmission(w) ==
  /\ w \in Curators
  /\ \E t \in Targets, i \in 0..(MaxDepth - 1) :
       /\ i = 0 => t \in DecisionTargets /\ t[2] \in DOMAIN store.chain[t[1]]
       /\ i = Len(store.admission[t])
       /\ Date(w, [op |-> "admit", target |-> t, after |-> i, at |-> clock[w],
                   outcome |-> IF i % 2 = 0 THEN "admitted" ELSE "quarantined"])

Commit(w, S) ==
  /\ DecisionCount(S) <= MaxDecisions
  /\ \A r \in Readers : reader[r].pc # "idle" => Len(reader[r].answers) <= MaxLate
  /\ store' = S
  /\ writer' = [writer EXCEPT ![w] = Idle]
  /\ reader' = [r \in Readers |-> IF reader[r].pc # "idle"
                                   THEN [reader[r] EXCEPT !.answers = Append(@, Answer(S, reader[r].query))]
                                   ELSE reader[r]]
  /\ UNCHANGED clock

\* A row is immutable: a second insertion must bring the same row.
Puttable(at, rows, date) == \A x \in rows : at[x] \in {Never, date}
Put(at, rows, date) == [x \in DOMAIN at |-> IF x \in rows THEN date ELSE at[x]]

PutEvidenceSpans(S, k) == Put(S.span, RunSpans(k.run), k.versionAt)
PutMentions(S, k) == Put(S.mention, RunMentions(k.run), k.at)
PutObservations(S, k) == Put(S.observation, k.run, k.at)
PutEntity(S, k) == Put(S.entity, IF k.creates THEN {k.entity} ELSE {}, k.at)

\* A mention's identity includes the run that found it.
FirstAdmissions(S, k) ==
  [t \in Targets |-> IF t \in k.run \cup RunMentions(k.run)
                       THEN <<[outcome |-> "admitted", at |-> k.at]>> ELSE S.admission[t]]

\* CompleteVersion stores the whole write set or nothing.
CommitExtraction(w) ==
  LET k == writer[w] IN
  /\ k.op = "complete"
  /\ \A o \in k.run : /\ store.observation[o] = Never
                       /\ \A e \in Endpoints(o) \cap Entities : store.entity[e] # Never
  /\ \A m \in RunMentions(k.run) : store.mention[m] = Never
  /\ Puttable(store.span, RunSpans(k.run), k.versionAt)
  /\ Commit(w, [store EXCEPT !.observation = PutObservations(store, k),
                             !.mention = PutMentions(store, k),
                             !.span = PutEvidenceSpans(store, k),
                             !.admission = FirstAdmissions(store, k)])

\* AppendResolutionDecision asks that the predecessor is still the effective
\* decision; it does not compare the two dates.
CommitDecision(w) ==
  LET k == writer[w] IN
  /\ k.op = "decide"
  /\ Len(store.chain[k.mention]) = k.after
  /\ k.creates => store.entity[k.entity] = Never
  /\ Commit(w,
       [store EXCEPT
          !.entity = PutEntity(store, k),
          !.chain[k.mention] = Append(@, [outcome |-> k.outcome, entity |-> k.entity,
                                          at |-> k.at])])

CommitAdmission(w) ==
  LET k == writer[w] IN
  /\ k.op = "admit"
  /\ Len(store.admission[k.target]) = k.after
  /\ Commit(w, [store EXCEPT !.admission[k.target] =
                  Append(@, [outcome |-> k.outcome, at |-> k.at])])

\* A conflict, a cancellation or a crash: nothing of the write set is stored.
Abandon(w) ==
  /\ writer[w] # Idle
  /\ writer' = [writer EXCEPT ![w] = Idle]
  /\ UNCHANGED <<store, clock, reader>>

-----------------------------------------------------------------------------
\* Mutant: each statement sees what is committed when it runs.
ReadsCommitted(r) == store

\* Repeatable read: the first statement fixes what the transaction sees.
Snapshot(r) == reader[r].snapshot

Seen(r) == View(Snapshot(r), reader[r].query.cutoff)

Statement(r, from, to) ==
  /\ reader[r].pc = from
  /\ reader' = [reader EXCEPT ![r] = to]
  /\ UNCHANGED <<store, clock, writer>>

\* BEGIN and the entities statement, whose snapshot is the transaction's.
ReadEntities(r) ==
  \E q \in Queries :
    Statement(r, "idle",
      [pc |-> "authority", query |-> q, snapshot |-> store, answers |-> <<Answer(store, q)>>,
       got |-> [NoAnswer EXCEPT !.known = {e \in q.entities : Visible(store.entity[e], q.cutoff)}]])

ReadAuthority(r) ==
  Statement(r, "authority",
    [reader[r] EXCEPT !.pc = IF ValidAuthority(Seen(r), reader[r].query)
                               THEN "qualification" ELSE "conflict"])

ReadQualification(r) ==
  Statement(r, "qualification",
    [reader[r] EXCEPT !.pc = "values", !.got.observations = Retained(Seen(r), reader[r].query),
                      !.got.coverage = Coverage(Seen(r), reader[r].query)])

\* Every qualified observation must be there.
ReadValues(r) ==
  Statement(r, "values",
    [reader[r] EXCEPT !.pc = IF {o.id : o \in reader[r].got.observations}
                                  \subseteq Seen(r).observations
                               THEN "evidence" ELSE "conflict"])

Documented(ids, cited) == \A o \in ids : \E c \in cited : c[1] = o

\* The evidence and its sections; an observation without evidence fails.
ReadEvidence(r) ==
  LET ids == {o.id : o \in reader[r].got.observations}
      cited == Cited(Snapshot(r), reader[r].query.cutoff, ids)
  IN Statement(r, "evidence",
       [reader[r] EXCEPT !.got.cited = cited,
                         !.pc = IF Documented(ids, cited) THEN "commit" ELSE "conflict"])

\* COMMIT, after which the answer is handed over; or the error is returned.
Finish(r) == \E pc \in {"commit", "conflict"} : Statement(r, pc, [pc |-> "idle"])

\* The caller's context ends: the transaction rolls back and nothing is told.
CancelQuery(r) == \E pc \in Statements : Statement(r, pc, [pc |-> "idle"])

Next ==
  \/ \E w \in Writers :
       \/ Tick(w) \/ Abandon(w)
       \/ DateExtraction(w) \/ DateDecision(w) \/ DateRejection(w) \/ DateCorrection(w)
       \/ DateAdmission(w)
       \/ CommitExtraction(w) \/ CommitDecision(w) \/ CommitAdmission(w)
  \/ \E r \in Readers :
       \/ ReadEntities(r) \/ ReadAuthority(r) \/ ReadQualification(r)
       \/ ReadValues(r) \/ ReadEvidence(r) \/ Finish(r) \/ CancelQuery(r)

Spec == Init /\ [][Next]_vars

-----------------------------------------------------------------------------
TypeOK ==
  /\ store \in Stores
  /\ clock \in [Writers -> Dates]
  /\ writer \in [Writers -> Work]
  /\ \A r \in Readers : IsReaderState(reader[r])

\* About to commit and hand over what it got.
Answering(r) == reader[r].pc = "commit"

Told(r) == [verdict |-> "answered", known |-> reader[r].got.known,
            observations |-> reader[r].got.observations,
            coverage |-> reader[r].got.coverage, cited |-> reader[r].got.cited]

\* What a query is told, over six statements, is what one single committed
\* state of the store answers (loadTemporalQuerySnapshot).
AnswersAreCoherent ==
  \A r \in Readers :
    /\ Answering(r) => \E i \in DOMAIN reader[r].answers : Told(r) = reader[r].answers[i]
    /\ reader[r].pc = "conflict" => \E i \in DOMAIN reader[r].answers : reader[r].answers[i].verdict = "conflict"

\* The authority statement finds its chains by another way than the
\* qualification statement: no answer names an observation whose mentions'
\* visible decisions or admissions go back in time.
AnswersAreValidated ==
  \A r \in Readers : Answering(r) =>
    LET V == Seen(r)
        ids == {o.id : o \in reader[r].got.observations}
        ms == UNION {MentionsOf(o) : o \in ids}
    IN /\ \A d \in V.decisions : d.mention \in ms => DecisionInOrder(V, d)
       /\ \A a \in V.admissions :
            \/ a.target \in ids \cup ms
            \/ \E d \in V.decisions : d.mention \in ms /\ a.target = <<d.mention, d.depth>>
            => AdmissionInOrder(V, a)

\* The two readers of current knowledge agree: what a query retains between two
\* entities is in the list of admitted observations of that ordered pair.
RetainedIsListed ==
  \A r \in Readers : Answering(r) /\ reader[r].query.cutoff = Current =>
    \A told \in reader[r].got.observations : \A s \in told.subject, o \in told.object :
      told.id \in PairObservations(Snapshot(r), s, o)

\* No clock can still show T and no writer holds a write set dated by then.
Settled(T) ==
  /\ T # Current
  /\ \A w \in Writers : /\ clock[w] > T
                        /\ writer[w] # Idle => writer[w].at > T

\* What is known as of a settled date is final: no later commit, correction or
\* late span changes any answer about it.
SettledAnswersAreFinal ==
  [][\A q \in Queries : Settled(q.cutoff) => Answer(store', q) = Answer(store, q)]_store

\* "A subsequent query uses the corrected identity authority": an admitted and
\* evident observation all of whose mentions are admitted and accepted, one of
\* them as a requested entity, is retained.
AcceptedIdentityIsUsed ==
  \A r \in Readers : Answering(r) /\ reader[r].query.cutoff = Current =>
    \A o \in Seen(r).evident :
      /\ Admitted(Seen(r), o)
      /\ \A m \in MentionsOf(o) : /\ Admitted(Seen(r), m)
                                  /\ \E d \in EffectiveDecisions(Seen(r)) : d.mention = m
      /\ \E d \in EffectiveDecisions(Seen(r)) : /\ d.mention \in MentionsOf(o)
                                                /\ d.entity \in reader[r].query.entities
      => \E told \in reader[r].got.observations : told.id = o
=============================================================================

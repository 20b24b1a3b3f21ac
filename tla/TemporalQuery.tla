------------------------------ MODULE TemporalQuery ------------------------------
(***************************************************************************)
(* The query service of internal/query: it validates a request, reads one  *)
(* snapshot, runs the intent's operation of TemporalState, adds the gaps,  *)
(* and validates the result it built once more before it returns it.       *)
(* The snapshot is that of TemporalSnapshot, with the outcome of identity  *)
(* and admission authority given by each row's qualification.              *)
(***************************************************************************)
EXTENDS TemporalState, SequencesExt

CONSTANTS
  People,            \* canonical entities; other terms are texts
  Registered,        \* those with a row in the store
  Observed,          \* the observations that may be recorded
  Requests,          \* the requests callers make, ill-formed ones among them
  MaxPeople, MaxPredicates, MaxChronology,    \* Limits
  MaxRecorded,       \* bound: observations recorded
  None               \* no entity, predicate or label

\* An observation as the reader projects it.  "qualification" is what identity
\* and admission say of it; a mention without an entity is a term that is none
\* of People.
Row(r) ==
  /\ DOMAIN r = {"id", "subject", "predicate", "object", "extent", "status", "recorded",
                 "supporting", "contradicting", "qualification"}
  /\ r.status \in {"asserted", "hypothesized", "rejected"}
  /\ r.qualification \in {"qualified", "unresolved-mention", "authority-excluded"}
  /\ r.extent \in Extents
  /\ r.supporting \cup r.contradicting # {}
  /\ r.id \in Nat \ {0} /\ r.recorded \in Nat \ {0}

ASSUME RowsAssumption == \A r \in Observed : Row(r)
\* A selection can only be made as a point or as a window that ends after it
\* starts (temporal.At and Between).
Selection(sel) ==
  /\ sel.kind \in {"point", "window"}
  /\ sel.start \in Nat \ {0}
  /\ sel.kind = "window" => sel.end \in Nat /\ sel.start < sel.end

ASSUME RequestsAssumption ==
  \A q \in Requests : /\ DOMAIN q.selections = 1..Len(q.selections)
                      /\ \A i \in DOMAIN q.selections : Selection(q.selections[i])
ASSUME LimitsAssumption == {MaxPeople, MaxPredicates, MaxChronology} \subseteq Nat \ {0}

VARIABLES
  recorded,    \* SUBSET Observed: what the store holds
  answer       \* the last query's request and outcome

queryVars == <<recorded, answer>>

Unanswered == [outcome |-> "none"]

-----------------------------------------------------------------------------
(* NormalizeRequest and temporal.NewPlan                                   *)

Intents == {"point-in-time", "trend-comparison", "trajectory", "causal-chain"}

Chronicles(q) == q.intent \in {"trajectory", "causal-chain"}

WellSelected(q) ==
  /\ Len(q.selections) = IF q.intent = "trend-comparison" THEN 2 ELSE 1
  /\ \A i \in DOMAIN q.selections :
       q.selections[i].kind = IF q.intent = "point-in-time" THEN "point" ELSE "window"
  /\ q.intent = "trend-comparison" =>
       /\ q.selections[2].start > q.selections[1].start
       /\ q.selections[1].label # q.selections[2].label

WellFormed(q) ==
  /\ q.entities # {} /\ Cardinality(q.entities) <= MaxPeople
  /\ Cardinality(q.predicates) <= MaxPredicates
  /\ q.intent \in Intents /\ WellSelected(q)
  /\ IF Chronicles(q) THEN q.limit \in 1..MaxChronology ELSE q.limit = 0
  /\ q.intent = "causal-chain" => q.predicates = {CausalPredicate}

-----------------------------------------------------------------------------
(* The reader's snapshot.                                                  *)

NamedEntities(r) == {r.subject, r.object} \cap People

Matched(q, r) ==
  IF q.match = "all" THEN q.entities \subseteq NamedEntities(r)
                     ELSE q.entities \cap NamedEntities(r) # {}

Exclusion(q, r) ==
  IF q.predicates # {} /\ r.predicate \notin q.predicates THEN "predicate-filtered"
  ELSE IF r.qualification = "unresolved-mention" THEN "unresolved-mention"
  ELSE IF ~Matched(q, r) THEN "entity-filtered"
  ELSE IF r.qualification = "authority-excluded" THEN "authority-excluded"
  ELSE "retained"

\* candidateFromReadObservation
Candidate(r) ==
  [id |-> r.id, key |-> [subject |-> r.subject, predicate |-> r.predicate], value |-> r.object,
   extent |-> r.extent, status |-> r.status, recorded |-> r.recorded,
   supporting |-> r.supporting, contradicting |-> r.contradicting]

Read(q) ==
  LET related == {r \in recorded : /\ InScope(q.cutoff, r.recorded)
                                   /\ NamedEntities(r) \cap q.entities # {}}
  IN [known |-> q.entities \cap Registered,
      candidates |-> {Candidate(r) : r \in {r \in related : Exclusion(q, r) = "retained"}},
      coverage |-> UNION {{[reason |-> Exclusion(q, r), entity |-> e, predicate |-> r.predicate,
                            extent |-> r.extent] : e \in NamedEntities(r) \cap q.entities} :
                          r \in {r \in related : Exclusion(q, r) # "retained"}}]

-----------------------------------------------------------------------------
(* Gaps.                                                                   *)

Gap(kind, e, p, label) == [kind |-> kind, entity |-> e, predicate |-> p, label |-> label]

\* Mutant: an extent that ends where the window starts is not outside it.
OutsideUnlessAdjacent(sel, x) ==
  /\ x.kind # "unknown"
  /\ IF sel.kind = "point" THEN IF x.kind = "instant" THEN x.start # sel.start ELSE ~Covers(x, sel.start)
     ELSE IF x.kind = "instant" THEN x.start < sel.start \/ x.start >= sel.end
     ELSE (x.start # NoBound /\ x.start >= sel.end) \/ (x.end # NoBound /\ x.end < sel.start)

DefinitelyOutside(sel, x) ==
  /\ x.kind # "unknown"
  /\ IF sel.kind = "point" THEN IF x.kind = "instant" THEN x.start # sel.start ELSE ~Covers(x, sel.start)
     ELSE IF x.kind = "instant" THEN x.start < sel.start \/ x.start >= sel.end
     ELSE (x.start # NoBound /\ x.start >= sel.end) \/ (x.end # NoBound /\ x.end <= sel.start)

StateEntities(f) == {f.key.subject, f.value} \cap People

CandidateEntities(s) ==
  UNION {StateEntities(f) : f \in s.facts \cup UNION {u.candidates : u \in s.unresolved}}

\* Mutant: the gap names every entity of the excluded observation.
GapsOfEveryEntity(q, C, sel) ==
  UNION {{Gap("valid-time-excluded", e, c.key.predicate, sel.label) : e \in StateEntities(c)} :
           c \in {c \in C : c.status # "rejected" /\ DefinitelyOutside(sel, c.extent)}}

\* addValidTimeGaps
ValidTimeGaps(q, C, sel) ==
  UNION {LET es == StateEntities(c) \cap q.entities
         IN {Gap("valid-time-excluded", e, c.key.predicate, sel.label) :
               e \in IF es = {} THEN {None} ELSE es} :
           c \in {c \in C : c.status # "rejected" /\ DefinitelyOutside(sel, c.extent)}}

CoverageGaps(coverage) ==
  {Gap(v.reason, v.entity, v.predicate, None) :
     v \in {v \in coverage : v.reason \in {"unresolved-mention", "authority-excluded"}}}

\* projectStateGaps; "within" is the selection that bounds the coverage, if any.
StateGaps(q, S, summaries, within) ==
  LET coverage == {v \in S.coverage : \A sel \in within : ~DefinitelyOutside(sel, v.extent)}
      gaps == CoverageGaps(coverage)
                \cup UNION {ValidTimeGaps(q, S.candidates, q.selections[i]) : i \in DOMAIN summaries}
      material == UNION {CandidateEntities(summaries[i]) : i \in DOMAIN summaries}
                    \cup {g.entity : g \in gaps}
  IN gaps \cup {Gap("no-evidence", e, None, None) : e \in q.entities \ material}

-----------------------------------------------------------------------------
(* Chronological order: the time, the first recording, the least id.  An     *)
(* observation has one key and one pair of terms: no two entries tie.        *)

Cites(t) ==
  UNION {f.ids : f \in t.before \cup t.after \cup UNION {u.candidates : u \in t.unresolved}}

FirstRecorded(C, ids) == Min({c.recorded : c \in {c \in C : c.id \in ids}})

Earlier(a, b) ==
  \/ a[1] < b[1]
  \/ a[1] = b[1] /\ a[2] < b[2]
  \/ a[1] = b[1] /\ a[2] = b[2] /\ a[3] < b[3]

\* Each element is at the place that the number of earlier ones gives it.
Chronological(S, rank) ==
  [i \in 1..Cardinality(S) |->
     CHOOSE s \in S : Cardinality({t \in S : Earlier(rank[t], rank[s])}) = i - 1]

OrderTransitions(T, C) ==
  Chronological(T, [t \in T |-> <<t.at, FirstRecorded(C, Cites(t)), Min(Cites(t))>>])

\* An observation is placed by its start, by its end if it has none; every
\* certain extent has one of them.
CausalBound(x) == IF x.start # NoBound THEN x.start ELSE x.end

OrderLinks(L, C) ==
  LET of(l) == {c \in C : c.id \in l.ids}
  IN Chronological(L, [l \in L |-> <<Min({CausalBound(c.extent) : c \in of(l)}),
                                    FirstRecorded(C, l.ids), Min(l.ids)>>])

-----------------------------------------------------------------------------
(* The intents.                                                            *)

TrendPayload(b, a) ==
  [before |-> b, after |-> a, changes |-> Changes(b, a),
   unresolvedKeys |-> UnresolvedKeys(b) \cup UnresolvedKeys(a)]

TrajectoryPayload(T, s, C) ==
  [transitions |-> OrderTransitions(T, C), unresolved |-> s.unresolved]

CausalPayload(L, C) == [links |-> OrderLinks(L, C)]

ExecutePoint(q, S) ==
  LET s == Summary(q.selections[1], q.cutoff, S.candidates)
  IN [payload |-> s, gaps |-> StateGaps(q, S, <<s>>, {q.selections[1]})]

ExecuteTrend(q, S) ==
  LET b == Summary(q.selections[1], q.cutoff, S.candidates)
      a == Summary(q.selections[2], q.cutoff, S.candidates)
  IN [payload |-> TrendPayload(b, a), gaps |-> StateGaps(q, S, <<b, a>>, {})]

ExecuteTrajectory(q, S) ==
  LET s == Summary(q.selections[1], q.cutoff, S.candidates)
      T == Trajectory(q.selections[1], q.cutoff, S.candidates)
  IN [payload |-> TrajectoryPayload(T, s, S.candidates),
      gaps |-> StateGaps(q, S, <<s>>, {q.selections[1]})]

ExecuteCausal(q, S) ==
  LET L == CausalLinks(q.selections[1], q.cutoff, S.candidates)
  IN [payload |-> CausalPayload(L, S.candidates),
      gaps |-> IF L = {} THEN {Gap("no-causal-evidence", None, CausalPredicate, q.selections[1].label)}
                         ELSE {}]

Execute(q, S) ==
  IF q.intent = "point-in-time" THEN ExecutePoint(q, S)
  ELSE IF q.intent = "trend-comparison" THEN ExecuteTrend(q, S)
  ELSE IF q.intent = "trajectory" THEN ExecuteTrajectory(q, S)
  ELSE ExecuteCausal(q, S)

Chronology(q, result) ==
  IF q.intent = "trajectory" THEN result.payload.transitions ELSE result.payload.links

-----------------------------------------------------------------------------
(* NormalizeResult: what the service validates of its own result.          *)

ValidFact(f) == f.ids # {} /\ f.supporting \cup f.contradicting # {}

ValidMaterial(facts, unresolved) ==
  /\ \A f, g \in facts : f.key = g.key => f = g
  /\ \A f \in facts : ValidFact(f)
  /\ \A u, w \in unresolved : u.key = w.key => u = w
  /\ \A u \in unresolved :
       /\ \A f \in facts : f.key # u.key
       /\ u.candidates # {}
       /\ u.reason = "conflicting-values" => Cardinality(u.candidates) >= 2
       /\ \A f, g \in u.candidates : f.value = g.value => f = g
       /\ \A f \in u.candidates : f.key = u.key /\ ValidFact(f)

\* validateChangeShape and validateFactRelationship
ValidChange(c) ==
  /\ c.kind = "added" <=> c.before = {}
  /\ c.kind = "removed" <=> c.after = {}
  /\ c.before \cup c.after # {}
  /\ \A f \in c.before \cup c.after : f.key = c.key /\ ValidFact(f)
  /\ c.kind = "changed" => \A f \in c.before, g \in c.after : f.value # g.value

\* The validator compares the two windows once more.
ValidTrend(p) ==
  /\ ValidMaterial(p.before.facts, p.before.unresolved)
  /\ ValidMaterial(p.after.facts, p.after.unresolved)
  /\ \A c, d \in p.changes : c.key = d.key => c = d
  /\ \A c \in p.changes : ValidChange(c)
  /\ p.unresolvedKeys = UnresolvedKeys(p.before) \cup UnresolvedKeys(p.after)
  /\ LET keys == (FactKeys(p.before) \cup FactKeys(p.after)) \ p.unresolvedKeys
     IN /\ {c.key : c \in p.changes} = {k \in keys : Differ(FactsOf(p.before, k), FactsOf(p.after, k))}
        /\ \A c \in p.changes : /\ c.before = FactsOf(p.before, c.key)
                                /\ c.after = FactsOf(p.after, c.key)

ValidTrajectory(q, p) ==
  /\ ValidMaterial({}, p.unresolved)
  /\ Len(p.transitions) <= q.limit
  /\ \A i, j \in DOMAIN p.transitions :
       LET t == p.transitions[i]  u == p.transitions[j]
       IN t.key = u.key /\ t.at = u.at => i = j
  /\ \A i \in DOMAIN p.transitions :
       LET t == p.transitions[i]
       IN /\ ValidChange(t) /\ ValidMaterial({}, t.unresolved)
          /\ \A u \in t.unresolved : u.key = t.key
          /\ t.at >= q.selections[1].start /\ t.at < q.selections[1].end

ValidCausal(q, p) ==
  /\ Len(p.links) <= q.limit
  /\ \A i \in DOMAIN p.links : ValidFact(p.links[i])

\* validateGapAssociation
ValidGap(q, g) ==
  /\ g.entity \in q.entities \cup {None}
  /\ g.label \in {q.selections[i].label : i \in DOMAIN q.selections} \cup {None}
  /\ g.predicate # None /\ q.predicates # {} => g.predicate \in q.predicates
  /\ g.kind = "no-causal-evidence" => q.intent = "causal-chain" /\ g.predicate = CausalPredicate

ValidResult(q, result) ==
  /\ q.intent = "point-in-time" => ValidMaterial(result.payload.facts, result.payload.unresolved)
  /\ q.intent = "trend-comparison" => ValidTrend(result.payload)
  /\ q.intent = "trajectory" => ValidTrajectory(q, result.payload)
  /\ q.intent = "causal-chain" => ValidCausal(q, result.payload)
  /\ \A g \in result.gaps : ValidGap(q, g)

-----------------------------------------------------------------------------
(* Service.Query *)

QueryInit ==
  /\ recorded = {}
  /\ answer = Unanswered

\* One more observation reaches the store.
Record(r) ==
  /\ Cardinality(recorded) < MaxRecorded
  /\ \A s \in recorded : s.id # r.id
  /\ recorded' = recorded \cup {r}
  /\ answer' = Unanswered

\* The request is refused before anything is read.
Refuse(q) ==
  /\ answer = Unanswered /\ ~WellFormed(q)
  /\ answer' = [outcome |-> "refused", query |-> q]
  /\ UNCHANGED recorded

\* ErrEntityNotFound
NotFound(q) ==
  /\ answer = Unanswered /\ WellFormed(q)
  /\ ~(q.entities \subseteq Read(q).known)
  /\ answer' = [outcome |-> "entity-not-found", query |-> q]
  /\ UNCHANGED recorded

\* ErrLimitExceeded comes with no part of the chronology.
Answered(q) ==
  /\ answer = Unanswered /\ WellFormed(q)
  /\ LET S == Read(q)
         result == Execute(q, S)
     IN /\ q.entities \subseteq S.known
        /\ answer' =
             IF Chronicles(q) /\ Len(Chronology(q, result)) > q.limit
               THEN [outcome |-> "limit-exceeded", query |-> q]
             ELSE IF ~ValidResult(q, result) THEN [outcome |-> "invalid", query |-> q]
             ELSE [outcome |-> "answered", query |-> q, result |-> result]
  /\ UNCHANGED recorded

QueryNext ==
  \/ \E r \in Observed : Record(r)
  \/ \E q \in Requests : Refuse(q) \/ NotFound(q) \/ Answered(q)

QuerySpec == QueryInit /\ [][QueryNext]_queryVars

-----------------------------------------------------------------------------
(* Properties.                                                             *)

\* The state of a key at an instant: the value of its fact, if there is one.
StateAt(C, cutoff, t, k) == {f.value : f \in FactsOf(Summary(At(t), cutoff, C), k)}

IsAnswer(intents) == answer.outcome = "answered" /\ answer.query.intent \in intents

Asked == answer.query
Candidates == Read(Asked).candidates

\* Each selection with what the answer says about it.
Reported ==
  LET p == answer.result.payload  sels == Asked.selections
  IN IF Asked.intent = "point-in-time" THEN {<<sels[1], p.facts, p.unresolved>>}
     ELSE IF Asked.intent = "trend-comparison"
       THEN {<<sels[1], p.before.facts, p.before.unresolved>>,
             <<sels[2], p.after.facts, p.after.unresolved>>}
     ELSE {<<sels[1], UNION {t.before \cup t.after : t \in ToSet(p.transitions)}, p.unresolved>>}

\* Learning more never turns a fact into another fact, and never settles what
\* is contested: of two sets of observations that differ by one, the larger one
\* leaves a key's value alone or unresolved (aggregateCandidates has no winner
\* by confidence, by recency or by number).  What is answered does not matter.
KnowledgeOnlyContests ==
  answer = Unanswered =>
  \A r \in recorded : \A sel \in {q.selections[1] : q \in {q \in Requests : WellFormed(q)}} :
    LET less == Summary(sel, Current, {Candidate(s) : s \in recorded \ {r}})
        more == Summary(sel, Current, {Candidate(s) : s \in recorded})
    IN \A f \in more.facts :
         /\ \A g \in FactsOf(less, f.key) : g.value = f.value
         /\ \A u \in UnresolvedOf(less, f.key) :
              Cardinality(u.candidates) = 1 /\ u.reason # "counterevidence-only"

\* A window's conflict is a conflict at some instant of that window, and states
\* that only follow one another are never called one (supportedValuesOverlap
\* compares whole extents, not their parts inside the window).
ConflictsAreAtOneInstant ==
  IsAnswer({"trend-comparison", "trajectory"}) =>
    \A w \in Reported : \A u \in w[3] :
      u.reason \in {"conflicting-values", "multiple-states-in-window"} =>
        (u.reason = "conflicting-values" <=>
           \E t \in w[1].start..(w[1].end - 1) :
             Cardinality(Values(Supported(OfKey(Material(At(t), Asked.cutoff, Candidates), u.key)))) > 1)

\* A trajectory says what changes and when, and nothing else: read in the order
\* given, its transitions take every key through the states that the points of
\* the window have.  (An observation of an instant is left out: it holds until
\* the next boundary of the trajectory, but at no other point.)
TrajectoryIsPointwise ==
  IsAnswer({"trajectory"}) /\ (\A c \in Candidates : c.extent.kind # "instant") =>
    LET T == answer.result.payload.transitions
        sel == Asked.selections[1]
        state(t, k) == StateAt(Candidates, Asked.cutoff, t, k)
    IN /\ \A i, j \in DOMAIN T : i < j => T[i].at <= T[j].at
       /\ \A k \in KeysOf(Candidates) : \A t \in sel.start..(sel.end - 1) :
            LET here == {i \in DOMAIN T : T[i].key = k /\ T[i].at = t}
            IN IF here = {} THEN state(t - 1, k) = state(t, k)
               ELSE \A i \in here : /\ {f.value : f \in T[i].before} = state(t - 1, k)
                                    /\ {f.value : f \in T[i].after} = state(t, k)

\* No retained observation disappears: in each selection it is cited by a fact,
\* a transition or an unresolved item, or a gap reports it as excluded, unless it
\* was rejected or only repeats the value that the answer reports for its key, or
\* that its key has when a trajectory begins and keeps all through it.
NothingIsLost ==
  IsAnswer({"point-in-time", "trend-comparison", "trajectory"}) =>
    \A c \in Candidates : \A w \in Reported :
      \/ c.status = "rejected"
      \/ \E f \in w[2] \cup UNION {u.candidates : u \in w[3]} :
           f.key = c.key /\ (c.id \in f.ids \/ f.value = c.value)
      \/ \E g \in answer.result.gaps : /\ g.kind = "valid-time-excluded" /\ g.label = w[1].label
                                       /\ g.predicate = c.key.predicate
                                       /\ g.entity \in StateEntities(c) \cup {None}
      \/ /\ Asked.intent = "trajectory" /\ \A f \in w[2] : f.key # c.key
         /\ {f.value : f \in FactsOf(Summary(JustBefore(w[1].start), Asked.cutoff, Candidates), c.key)}
              = {c.value}

\* The service accepts what it built: no well-formed question about what the
\* store can hold fails in NormalizeResult.
ResultsAreValid == answer.outcome # "invalid"
=============================================================================

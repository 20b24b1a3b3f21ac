------------------------------ MODULE TemporalState ------------------------------
(***************************************************************************)
(* The temporal algebra of core/temporal: what a set of entity-resolved    *)
(* observations says about a point, a window, the difference of two        *)
(* windows, the changes inside one window, and explicit causes.            *)
(*                                                                         *)
(* A candidate is a record [id, key, value, extent, status, recorded,      *)
(* supporting, contradicting]: key is [subject, predicate], extent is      *)
(* [kind, start, end], and the last two are sets of evidence.  Confidence  *)
(* is never read.                                                          *)
(***************************************************************************)
EXTENDS KnowledgeScope, FiniteSets

NoBound == 0          \* a bound an extent does not have; instants are positive

CausalPredicate == "stacks.causal.v1/causes"

-----------------------------------------------------------------------------
(* Valid time.  An extent is unknown (no bounds), an instant (its start), an *)
(* interval throughout which the statement holds (at least one bound), or a  *)
(* window within which it holds at some time (both bounds).                  *)

\* AtTime, During, Since, Until and Within
Extents ==
  {x \in [kind : {"unknown", "instant", "interval", "window"}, start : Nat, end : Nat] :
     /\ x.kind = "unknown" <=> x.start = NoBound /\ x.end = NoBound
     /\ x.kind = "instant" => x.end = NoBound
     /\ x.kind = "window" => x.start # NoBound /\ x.end # NoBound
     /\ x.start # NoBound /\ x.end # NoBound => x.start < x.end}

StartsBefore(x, t) == x.start = NoBound \/ x.start < t
StartsBy(x, t) == x.start = NoBound \/ x.start <= t
EndsAfter(x, t) == x.end = NoBound \/ x.end > t
EndsFrom(x, t) == x.end = NoBound \/ x.end >= t

\* intervalContains
Covers(x, t) == StartsBy(x, t) /\ EndsAfter(x, t)

At(t) == [kind |-> "point", start |-> t, end |-> NoBound]
Between(s, e) == [kind |-> "window", start |-> s, end |-> e]
JustBefore(t) == [kind |-> "before", start |-> t, end |-> NoBound]

Touches(sel, x) ==
  \/ sel.kind = "point" /\ IF x.kind = "instant" THEN x.start = sel.start
                                                 ELSE Covers(x, sel.start)
  \/ sel.kind = "window" /\ IF x.kind = "instant" THEN x.start >= sel.start /\ x.start < sel.end
                                                  ELSE StartsBefore(x, sel.end) /\ EndsAfter(x, sel.start)
  \/ sel.kind = "before" /\ x.kind # "instant" /\ StartsBefore(x, sel.start) /\ EndsFrom(x, sel.start)

\* Whether touching means holding: a window or an unknown time is uncertain.
Certain(x) == x.kind \in {"instant", "interval"}

\* Mutant: an interval that ends where another starts overlaps it.
OverlapWhenAdjacent(x, y) ==
  IF x.kind = "instant" THEN (IF y.kind = "instant" THEN x.start = y.start ELSE Covers(y, x.start))
  ELSE IF y.kind = "instant" THEN Covers(x, y.start)
  ELSE /\ x.start = NoBound \/ EndsFrom(y, x.start)
       /\ y.start = NoBound \/ EndsFrom(x, y.start)

\* temporalExtentsOverlap
Overlap(x, y) ==
  IF x.kind = "instant" THEN (IF y.kind = "instant" THEN x.start = y.start ELSE Covers(y, x.start))
  ELSE IF y.kind = "instant" THEN Covers(x, y.start)
  ELSE /\ x.start = NoBound \/ EndsAfter(y, x.start)
       /\ y.start = NoBound \/ EndsAfter(x, y.start)

-----------------------------------------------------------------------------
(* Aggregation.                                                            *)

\* What aggregateCandidates puts into its groups.
Material(sel, cutoff, C) ==
  {c \in C : InScope(cutoff, c.recorded) /\ Touches(sel, c.extent) /\ c.status # "rejected"}

CounterOnly(M) == {c \in M : c.supporting = {}}
Uncertain(M) == {c \in M \ CounterOnly(M) : ~Certain(c.extent)}
Hypothesized(M) == {c \in M \ CounterOnly(M) : Certain(c.extent) /\ c.status = "hypothesized"}
Tentative(M) == Uncertain(M) \cup Hypothesized(M)
Supported(M) == M \ (CounterOnly(M) \cup Tentative(M))

Values(M) == {c.value : c \in M}
KeysOf(M) == {c.key : c \in M}
OfKey(M, k) == {c \in M : c.key = k}

\* Mutant: of the supported values the one recorded last wins.
SettlesByRecency(M, v) ==
  /\ CounterOnly(M) = {}
  /\ \E c \in Supported(M) : c.value = v /\ \A d \in Supported(M) : d.recorded <= c.recorded
  /\ Values(Tentative(M)) \subseteq {v}

\* M is about one key: one supported value, no other tentative one, and no
\* value that only counterevidence names.
Settles(M, v) ==
  /\ CounterOnly(M) = {}
  /\ Values(Supported(M)) = {v}
  /\ Values(Tentative(M)) \subseteq {v}

Fact(k, v, M) ==
  [key |-> k, value |-> v, ids |-> {c.id : c \in M},
   supporting |-> UNION {c.supporting : c \in M},
   contradicting |-> UNION {c.contradicting : c \in M}]

\* hasAlternative
Alternative(T, M) == ~(Values(T) \subseteq Values(Supported(M)))

\* supportedValuesOverlap
Conflicting(M) ==
  \E c, d \in Supported(M) : c.value # d.value /\ Overlap(c.extent, d.extent)

UnresolvedReason(M) ==
  IF Alternative(Uncertain(M), M) THEN "temporal-uncertainty"
  ELSE IF Alternative(Hypothesized(M), M) THEN "hypothesized"
  ELSE IF Cardinality(Values(Supported(M) \cup Tentative(M))) > 1
         THEN (IF Conflicting(M) THEN "conflicting-values" ELSE "multiple-states-in-window")
  ELSE IF CounterOnly(M) # {} THEN "counterevidence-only"
  ELSE "hypothesized"

Unresolved(k, M) ==
  [key |-> k, reason |-> UnresolvedReason(M),
   candidates |-> {Fact(k, v, {c \in M : c.value = v}) : v \in Values(M)}]

\* summarizeGroups; a fact does not cite the tentative observations that agree.
Summary(sel, cutoff, C) ==
  LET M == Material(sel, cutoff, C)
      settled == {k \in KeysOf(M) : \E v \in Values(M) : Settles(OfKey(M, k), v)}
  IN [facts |-> {Fact(k, CHOOSE v \in Values(M) : Settles(OfKey(M, k), v), Supported(OfKey(M, k))) :
                   k \in settled},
      unresolved |-> {Unresolved(k, OfKey(M, k)) : k \in KeysOf(M) \ settled}]

FactKeys(s) == {f.key : f \in s.facts}
UnresolvedKeys(s) == {u.key : u \in s.unresolved}
FactsOf(s, k) == {f \in s.facts : f.key = k}
UnresolvedOf(s, k) == {u \in s.unresolved : u.key = k}

-----------------------------------------------------------------------------
(* Differences.  "before" and "after" are sets of at most one fact.        *)

ChangeKind(b, a) == IF b = {} THEN "added" ELSE IF a = {} THEN "removed" ELSE "changed"

Differ(b, a) == {f.value : f \in b} # {f.value : f \in a}

\* CompareWindowSummaries
Changes(before, after) ==
  {[kind |-> ChangeKind(FactsOf(before, k), FactsOf(after, k)), key |-> k,
    before |-> FactsOf(before, k), after |-> FactsOf(after, k)] :
     k \in {k \in (FactKeys(before) \cup FactKeys(after))
                    \ (UnresolvedKeys(before) \cup UnresolvedKeys(after)) :
              Differ(FactsOf(before, k), FactsOf(after, k))}}

\* Mutant: an interval that ends inside the window makes no boundary.
BoundariesOfStarts(sel, cutoff, C) ==
  {sel.start, sel.end}
    \cup {c.extent.start : c \in {c \in C : /\ InScope(cutoff, c.recorded) /\ c.status # "rejected"
                                            /\ c.extent.start >= sel.start /\ c.extent.start < sel.end}}

\* addTrajectoryBoundaries; NoBound lies before every window.
Boundaries(sel, cutoff, C) ==
  LET eligible == {c \in C : InScope(cutoff, c.recorded) /\ c.status # "rejected"}
  IN {sel.start, sel.end}
       \cup {c.extent.start : c \in {c \in eligible : /\ c.extent.start >= sel.start
                                                      /\ c.extent.start < sel.end}}
       \cup {c.extent.end : c \in {c \in eligible : /\ c.extent.end > sel.start
                                                    /\ c.extent.end < sel.end}}

\* diffTrajectoryState: unresolved material does not hide a change, it comes
\* along.
Transitions(before, after, at) ==
  {[kind |-> ChangeKind(FactsOf(before, k), FactsOf(after, k)), key |-> k, at |-> at,
    before |-> FactsOf(before, k), after |-> FactsOf(after, k),
    unresolved |-> UnresolvedOf(before, k) \cup UnresolvedOf(after, k)] :
     k \in {k \in FactKeys(before) \cup FactKeys(after) : Differ(FactsOf(before, k), FactsOf(after, k))}}

NextBound(bounds, b) == CHOOSE n \in bounds : n > b /\ \A m \in bounds : m > b => n <= m
PreviousBound(bounds, b) == CHOOSE p \in bounds : p < b /\ \A m \in bounds : m < b => m <= p

\* Each boundary starts a partition that ends at the next one.
Partition(bounds, cutoff, C, b) == Summary(Between(b, NextBound(bounds, b)), cutoff, C)

StateBefore(sel, cutoff, C, b) ==
  LET bounds == Boundaries(sel, cutoff, C)
  IN IF b = sel.start THEN Summary(JustBefore(b), cutoff, C)
     ELSE Partition(bounds, cutoff, C, PreviousBound(bounds, b))

StateFrom(sel, cutoff, C, b) == Partition(Boundaries(sel, cutoff, C), cutoff, C, b)

\* BuildTrajectory
Trajectory(sel, cutoff, C) ==
  UNION {Transitions(StateBefore(sel, cutoff, C, b), StateFrom(sel, cutoff, C, b), b) :
           b \in Boundaries(sel, cutoff, C) \ {sel.end}}

-----------------------------------------------------------------------------
(* BuildCausalChain: the observations that certainly hold, the rejected ones *)
(* and those with counterevidence only among them, merged by their terms.    *)

\* The link from one term to another.
Link(M, cause, effect) ==
  LET L == {c \in M : c.key.subject = cause /\ c.value = effect}
  IN [cause |-> cause, effect |-> effect, ids |-> {c.id : c \in L},
      supporting |-> UNION {c.supporting : c \in L},
      contradicting |-> UNION {c.contradicting : c \in L}]

CausalLinks(sel, cutoff, C) ==
  LET M == {c \in C : /\ c.key.predicate = CausalPredicate /\ InScope(cutoff, c.recorded)
                      /\ Touches(sel, c.extent) /\ Certain(c.extent)}
  IN {Link(M, c.key.subject, c.value) : c \in M}
=============================================================================

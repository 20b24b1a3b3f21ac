--------------------------- MODULE TemporalQueryProofs ---------------------------
(***************************************************************************)
(* What the temporal algebra and the service that uses it guarantee for    *)
(* every set of observations: the aggregation of core/temporal has no      *)
(* winner, a conflict of a window is a conflict at one of its instants, a  *)
(* trajectory is the sequence of the states of its points, no observation  *)
(* disappears from an answer, and the service accepts what it built.       *)
(***************************************************************************)
EXTENDS TemporalQuery, FiniteSetTheorems, WellFoundedInduction, TLAPS

-----------------------------------------------------------------------------
(* Groups of candidates.                                                   *)

\* What puts a candidate among the supported ones.
Holds(c) == c.supporting # {} /\ Certain(c.extent) /\ c.status # "hypothesized"

LEMMA SupportedAre == \A M : Supported(M) = {c \in M : Holds(c)}
  BY DEF Supported, Tentative, Uncertain, Hypothesized, CounterOnly, Holds

\* A settled key has one value among its supported and tentative candidates,
\* and so has each part of its group.
LEMMA PartOfSettled ==
  ASSUME NEW M, NEW L \in SUBSET M, NEW v, Settles(M, v)
  PROVE  /\ CounterOnly(L) = {}
         /\ Values(L) \subseteq {v}
         /\ Values(Supported(L)) \subseteq {v}
  <1>1. CounterOnly(L) = {}
    BY DEF Settles, CounterOnly
  <1>2. ASSUME NEW c \in L
        PROVE  c.value = v
    <2>1. CASE c \in Supported(M)
      BY <2>1 DEF Settles, Values
    <2>2. CASE c \in Tentative(M)
      BY <2>2 DEF Settles, Values
    <2>3. c \notin CounterOnly(M)
      BY DEF Settles
    <2> QED
      BY <2>1, <2>2, <2>3 DEF Supported
  <1> QED
    BY <1>1, <1>2 DEF Values, Supported

-----------------------------------------------------------------------------
(* Learning more.                                                          *)

\* What a summary says of a fact and of an unresolved key.
LEMMA FactIsSettled ==
  ASSUME NEW sel, NEW cutoff, NEW C, NEW f \in Summary(sel, cutoff, C).facts
  PROVE  Settles(OfKey(Material(sel, cutoff, C), f.key), f.value)
  <1> DEFINE M == Material(sel, cutoff, C)
  <1>1. PICK k : /\ \E v \in Values(M) : Settles(OfKey(M, k), v)
                 /\ f = Fact(k, CHOOSE v \in Values(M) : Settles(OfKey(M, k), v),
                             Supported(OfKey(M, k)))
    BY DEF Summary
  <1>2. PICK v : v = (CHOOSE w \in Values(M) : Settles(OfKey(M, k), w))
    OBVIOUS
  <1>3. Settles(OfKey(M, k), v)
    BY <1>1, <1>2
  <1>4. f.key = k /\ f.value = v
    BY <1>1, <1>2 DEF Fact
  <1> QED
    BY <1>3, <1>4

LEMMA UnresolvedIsContested ==
  ASSUME NEW sel, NEW cutoff, NEW C, NEW u \in Summary(sel, cutoff, C).unresolved
  PROVE  /\ u = Unresolved(u.key, OfKey(Material(sel, cutoff, C), u.key))
         /\ u.key \in KeysOf(Material(sel, cutoff, C))
  <1>1. PICK k \in KeysOf(Material(sel, cutoff, C)) :
          u = Unresolved(k, OfKey(Material(sel, cutoff, C), k))
    BY DEF Summary
  <1>2. u.key = k
    BY <1>1 DEF Unresolved
  <1> QED
    BY <1>1, <1>2

\* Of two sets of observations of which one contains the other, a key that the
\* larger one settles has no other value in the smaller one, and is contested
\* there only for want of support.
LEMMA MoreNeverReplaces ==
  ASSUME NEW sel, NEW cutoff, NEW D, NEW C \in SUBSET D, NEW f \in Summary(sel, cutoff, D).facts
  PROVE  /\ \A g \in FactsOf(Summary(sel, cutoff, C), f.key) : g.value = f.value
         /\ \A u \in UnresolvedOf(Summary(sel, cutoff, C), f.key) :
              Cardinality(u.candidates) = 1 /\ u.reason # "counterevidence-only"
  <1>1. PICK M : M = OfKey(Material(sel, cutoff, D), f.key)
    OBVIOUS
  <1>2. PICK L : L = OfKey(Material(sel, cutoff, C), f.key)
    OBVIOUS
  <1>3. PICK v : v = f.value
    OBVIOUS
  <1>4. L \in SUBSET M
    BY <1>1, <1>2 DEF OfKey, Material
  <1>5. Settles(M, v)
    BY <1>1, <1>3, FactIsSettled
  <1>6. /\ CounterOnly(L) = {} /\ Values(L) \subseteq {v}
        /\ Values(Supported(L)) \subseteq {v}
    BY <1>4, <1>5, PartOfSettled
  <1>7. ASSUME NEW g \in FactsOf(Summary(sel, cutoff, C), f.key)
        PROVE  g.value = v
    <2>1. Settles(L, g.value)
      BY <1>2, FactIsSettled DEF FactsOf
    <2> QED
      BY <1>6, <2>1 DEF Settles
  <1>8. ASSUME NEW u \in UnresolvedOf(Summary(sel, cutoff, C), f.key)
        PROVE  Cardinality(u.candidates) = 1 /\ u.reason # "counterevidence-only"
    <2>1. u = Unresolved(f.key, L) /\ f.key \in KeysOf(Material(sel, cutoff, C))
      BY <1>2, UnresolvedIsContested DEF UnresolvedOf
    <2>2. L # {}
      BY <1>2, <2>1 DEF KeysOf, OfKey
    <2>3. Values(L) = {v}
      BY <1>6, <2>2 DEF Values
    <2>4. PICK x : x = Fact(f.key, v, {c \in L : c.value = v})
      OBVIOUS
    <2>5. u.candidates = {x}
      BY <2>1, <2>3, <2>4 DEF Unresolved
    <2>6. u.reason = UnresolvedReason(L)
      BY <2>1 DEF Unresolved
    <2>7. UnresolvedReason(L) # "counterevidence-only"
      BY <1>6 DEF UnresolvedReason
    <2> QED
      BY <2>5, <2>6, <2>7, FS_Singleton
  <1> QED
    BY <1>3, <1>7, <1>8

\* Learning more never turns a fact into another fact nor settles what is
\* contested, in any store (aggregateCandidates, summarizeGroups).
THEOREM LearningOnlyContests == QuerySpec => []KnowledgeOnlyContests
  <1>1. KnowledgeOnlyContests
    <2> SUFFICES ASSUME NEW r \in recorded, NEW sel
                 PROVE  LET less == Summary(sel, Current, {Candidate(s) : s \in recorded \ {r}})
                            more == Summary(sel, Current, {Candidate(s) : s \in recorded})
                        IN \A f \in more.facts :
                             /\ \A g \in FactsOf(less, f.key) : g.value = f.value
                             /\ \A u \in UnresolvedOf(less, f.key) :
                                  Cardinality(u.candidates) = 1
                                  /\ u.reason # "counterevidence-only"
      BY DEF KnowledgeOnlyContests
    <2>1. PICK D : D = {Candidate(s) : s \in recorded}
      OBVIOUS
    <2>2. PICK C : C = {Candidate(s) : s \in recorded \ {r}}
      OBVIOUS
    <2>3. C \in SUBSET D
      BY <2>1, <2>2
    <2> QED
      BY <2>1, <2>2, <2>3, MoreNeverReplaces
  <1> QED
    BY <1>1, PTL

-----------------------------------------------------------------------------
(* Valid time: two certain extents that reach into a window and overlap     *)
(* have an instant of the window in common.                                *)

\* An instant of the window that both extents have.
LEMMA CommonInstant ==
  ASSUME NEW sel, Selection(sel), sel.kind = "window",
         NEW x \in Extents, NEW y \in Extents, Certain(x), Certain(y)
  PROVE  (Touches(sel, x) /\ Touches(sel, y) /\ Overlap(x, y)) <=>
           \E t \in sel.start..(sel.end - 1) : Touches(At(t), x) /\ Touches(At(t), y)
  <1>1. PICK s, e : s = sel.start /\ e = sel.end /\ s \in Nat \ {0} /\ e \in Nat /\ s < e
    BY DEF Selection
  <1>2. /\ x.start \in Nat /\ x.end \in Nat /\ y.start \in Nat /\ y.end \in Nat
        /\ x.start # 0 /\ x.end # 0 => x.start < x.end
        /\ y.start # 0 /\ y.end # 0 => y.start < y.end
        /\ x.kind = "instant" => x.end = 0 /\ x.start # 0
        /\ y.kind = "instant" => y.end = 0 /\ y.start # 0
    BY DEF Extents, NoBound
  <1>3. \A z : Touches(sel, z) <=>
                 IF z.kind = "instant" THEN z.start >= s /\ z.start < e
                 ELSE StartsBefore(z, e) /\ EndsAfter(z, s)
    BY <1>1 DEF Touches
  <1>4. \A z : \A t \in Nat : Touches(At(t), z) <=>
                 IF z.kind = "instant" THEN z.start = t ELSE Covers(z, t)
    BY DEF Touches, At
  <1>5. ASSUME NEW t \in s..(e - 1), Touches(At(t), x), Touches(At(t), y)
        PROVE  Touches(sel, x) /\ Touches(sel, y) /\ Overlap(x, y)
    <2>1. t \in Nat /\ s <= t /\ t < e
      BY <1>1
    <2>2. IF x.kind = "instant" THEN x.start = t ELSE Covers(x, t)
      BY <1>4, <1>5, <2>1
    <2>3. IF y.kind = "instant" THEN y.start = t ELSE Covers(y, t)
      BY <1>4, <1>5, <2>1
    <2>4. Touches(sel, x) /\ Touches(sel, y)
      BY <1>1, <1>2, <1>3, <2>1, <2>2, <2>3
         DEF Covers, StartsBy, StartsBefore, EndsAfter, NoBound
    <2>5. Overlap(x, y)
      BY <1>1, <1>2, <2>1, <2>2, <2>3 DEF Overlap, Covers, StartsBy, EndsAfter, NoBound
    <2> QED
      BY <2>4, <2>5
  <1>6. ASSUME Touches(sel, x), Touches(sel, y), Overlap(x, y)
        PROVE  \E t \in s..(e - 1) : Touches(At(t), x) /\ Touches(At(t), y)
    <2>1. CASE x.kind = "instant"
      <3>1. x.start \in s..(e - 1)
        BY <1>1, <1>2, <1>3, <1>6, <2>1
      <3>2. Touches(At(x.start), x) /\ Touches(At(x.start), y)
        BY <1>2, <1>4, <1>6, <2>1 DEF Overlap
      <3> QED
        BY <3>1, <3>2
    <2>2. CASE x.kind # "instant" /\ y.kind = "instant"
      <3>1. y.start \in s..(e - 1)
        BY <1>1, <1>2, <1>3, <1>6, <2>2
      <3>2. Touches(At(y.start), x) /\ Touches(At(y.start), y)
        BY <1>2, <1>4, <1>6, <2>2 DEF Overlap
      <3> QED
        BY <3>1, <3>2
    <2>3. CASE x.kind # "instant" /\ y.kind # "instant"
      <3>1. /\ StartsBefore(x, e) /\ EndsAfter(x, s)
            /\ StartsBefore(y, e) /\ EndsAfter(y, s)
        BY <1>3, <1>6, <2>3
      <3>2. /\ x.start = NoBound \/ EndsAfter(y, x.start)
            /\ y.start = NoBound \/ EndsAfter(x, y.start)
        BY <1>6, <2>3 DEF Overlap
      <3>3. PICK t \in {s, x.start, y.start} : t >= s /\ t >= x.start /\ t >= y.start
        BY <1>1, <1>2
      <3>4. t \in s..(e - 1)
        BY <1>1, <1>2, <3>1, <3>3 DEF StartsBefore, NoBound
      <3>5. Covers(x, t) /\ Covers(y, t)
        BY <1>1, <1>2, <3>1, <3>2, <3>3 DEF Covers, StartsBy, EndsAfter, NoBound
      <3>6. Touches(At(t), x) /\ Touches(At(t), y)
        BY <1>1, <1>2, <1>4, <2>3, <3>4, <3>5
      <3> QED
        BY <3>4, <3>6
    <2> QED
      BY <2>1, <2>2, <2>3
  <1> QED
    BY <1>1, <1>5, <1>6

\* The supported candidates of a key that a selection touches.
LEMMA SupportedTouch ==
  \A sel, cutoff, C, k, c :
    c \in Supported(OfKey(Material(sel, cutoff, C), k)) <=>
      /\ c \in C /\ Touches(sel, c.extent)
      /\ c.key = k /\ InScope(cutoff, c.recorded) /\ c.status # "rejected" /\ Holds(c)
  BY SupportedAre DEF OfKey, Material

LEMMA ConflictHasInstant ==
  ASSUME NEW sel, Selection(sel), sel.kind = "window", NEW cutoff, NEW k,
         NEW C, \A c \in C : c.extent \in Extents
  PROVE  Conflicting(OfKey(Material(sel, cutoff, C), k)) <=>
           \E t \in sel.start..(sel.end - 1) :
             \E c, d \in Supported(OfKey(Material(At(t), cutoff, C), k)) : c.value # d.value
  <1> DEFINE Group(S) == Supported(OfKey(Material(S, cutoff, C), k))
  <1>1. \A S, c : c \in Group(S) <=>
          /\ c \in C /\ Touches(S, c.extent)
          /\ c.key = k /\ InScope(cutoff, c.recorded) /\ c.status # "rejected" /\ Holds(c)
    BY SupportedTouch
  <1> HIDE DEF Group
  <1>2. ASSUME NEW c \in Group(sel), NEW d \in Group(sel), c.value # d.value,
               Overlap(c.extent, d.extent)
        PROVE  \E t \in sel.start..(sel.end - 1) : \E a, b \in Group(At(t)) : a.value # b.value
    <2>1. c \in C /\ d \in C /\ Holds(c) /\ Holds(d)
      BY <1>1
    <2>2. PICK t \in sel.start..(sel.end - 1) : Touches(At(t), c.extent) /\ Touches(At(t), d.extent)
      BY <1>1, <1>2, <2>1, CommonInstant DEF Holds
    <2>3. c \in Group(At(t)) /\ d \in Group(At(t))
      BY <1>1, <2>2
    <2> QED
      BY <1>2, <2>3
  <1>3. ASSUME NEW t \in sel.start..(sel.end - 1), NEW c \in Group(At(t)), NEW d \in Group(At(t)),
               c.value # d.value
        PROVE  \E a, b \in Group(sel) : a.value # b.value /\ Overlap(a.extent, b.extent)
    <2>1. /\ c \in C /\ d \in C /\ Holds(c) /\ Holds(d)
          /\ Touches(At(t), c.extent) /\ Touches(At(t), d.extent)
      BY <1>1
    <2>2. Touches(sel, c.extent) /\ Touches(sel, d.extent) /\ Overlap(c.extent, d.extent)
      BY <2>1, CommonInstant DEF Holds
    <2>3. c \in Group(sel) /\ d \in Group(sel)
      BY <1>1, <2>2
    <2> QED
      BY <1>3, <2>2, <2>3
  <1>4. Conflicting(OfKey(Material(sel, cutoff, C), k)) <=>
          \E c, d \in Group(sel) : c.value # d.value /\ Overlap(c.extent, d.extent)
    BY DEF Conflicting, Group
  <1>5. (\E t \in sel.start..(sel.end - 1) : \E c, d \in Group(At(t)) : c.value # d.value) <=>
          \E c, d \in Group(sel) : c.value # d.value /\ Overlap(c.extent, d.extent)
    BY <1>2, <1>3
  <1> QED
    BY <1>4, <1>5 DEF Group

\* The library's fact about images takes an operator; this one takes a function.
LEMMA FiniteImage ==
  ASSUME NEW S, IsFiniteSet(S), NEW f
  PROVE  IsFiniteSet({f[x] : x \in S})
  <1>1. PICK T : T = {f[x] : x \in S}
    OBVIOUS
  <1>2. PICK g : g = [x \in S |-> f[x]]
    OBVIOUS
  <1>3. g \in Surjection(S, T)
    BY <1>1, <1>2 DEF Surjection
  <1>4. IsFiniteSet(T)
    BY <1>3, FS_Surjection
  <1> QED
    BY <1>1, <1>4

\* Two values are more than one.
LEMMA Several ==
  ASSUME NEW M, IsFiniteSet(M)
  PROVE  Cardinality(Values(M)) > 1 <=> \E c, d \in M : c.value # d.value
  <1>1. PICK V : V = Values(M)
    OBVIOUS
  <1>2. IsFiniteSet(V)
    <2> DEFINE f == [c \in M |-> c.value]
    <2>1. V = {f[c] : c \in M}
      BY <1>1 DEF Values
    <2> QED
      BY <2>1, FiniteImage
  <1>3. Cardinality(V) \in Nat
    BY <1>2, FS_CardinalityType
  <1>4. Cardinality(V) = 0 <=> V = {}
    BY <1>2, FS_EmptySet
  <1>5. Cardinality(V) = 1 <=> \E v : V = {v}
    BY <1>2, FS_Singleton
  <1>6. (V = {} \/ \E v : V = {v}) <=> ~\E v, w \in V : v # w
    OBVIOUS
  <1>7. (\E v, w \in V : v # w) <=> \E c, d \in M : c.value # d.value
    BY <1>1 DEF Values
  <1> QED
    BY <1>1, <1>3, <1>4, <1>5, <1>6, <1>7

-----------------------------------------------------------------------------
(* Summaries.                                                              *)

GroupOf(sel, cutoff, C, k) == OfKey(Material(sel, cutoff, C), k)

SettledValues(M) == {v \in Values(M) : Settles(M, v)}

\* A group that is not empty and has no settled value.
Contested(M) == M # {} /\ \A v : ~Settles(M, v)

\* A group has at most one settled value, and it is one of its supported ones.
LEMMA SettledOnce ==
  ASSUME NEW M, NEW v, Settles(M, v)
  PROVE  /\ v \in Values(M) /\ SettledValues(M) = {v}
         /\ Supported(M) # {} /\ \A c \in M : c.value = v
  <1>1. Values(Supported(M)) = {v}
    BY DEF Settles
  <1>2. v \in Values(M) /\ Supported(M) # {}
    BY <1>1 DEF Values, Supported
  <1>3. \A w : Settles(M, w) => w = v
    BY <1>1 DEF Settles
  <1>4. \A c \in M : c.value = v
    BY PartOfSettled DEF Values
  <1> QED
    BY <1>2, <1>3, <1>4 DEF SettledValues

LEMMA ASettledValueIsOne ==
  ASSUME NEW M, NEW v \in SettledValues(M)
  PROVE  Settles(M, v) /\ SettledValues(M) = {v}
  BY SettledOnce DEF SettledValues

LEMMA NothingSettled ==
  ASSUME NEW M, \A v : ~Settles(M, v)
  PROVE  SettledValues(M) = {}
  BY DEF SettledValues

\* A group with candidates has a key of the material.
LEMMA GroupHasKey ==
  ASSUME NEW sel, NEW cutoff, NEW C, NEW k
  PROVE  k \in KeysOf(Material(sel, cutoff, C)) <=> GroupOf(sel, cutoff, C, k) # {}
  BY DEF KeysOf, GroupOf, OfKey

\* The facts and the unresolved keys of a summary.
LEMMA SummaryFacts ==
  ASSUME NEW sel, NEW cutoff, NEW C, NEW f
  PROVE  f \in Summary(sel, cutoff, C).facts <=>
           \E k, v : /\ Settles(GroupOf(sel, cutoff, C, k), v)
                     /\ f = Fact(k, v, Supported(GroupOf(sel, cutoff, C, k)))
  <1>1. PICK M : M = Material(sel, cutoff, C)
    OBVIOUS
  <1>2. \A k, v : Settles(OfKey(M, k), v) =>
          /\ k \in KeysOf(M) /\ v \in Values(M)
          /\ (CHOOSE w \in Values(M) : Settles(OfKey(M, k), w)) = v
    <2> SUFFICES ASSUME NEW k, NEW v, Settles(OfKey(M, k), v)
                 PROVE  /\ k \in KeysOf(M) /\ v \in Values(M)
                        /\ (CHOOSE w \in Values(M) : Settles(OfKey(M, k), w)) = v
      OBVIOUS
    <2>1. PICK G : G = OfKey(M, k)
      OBVIOUS
    <2>2. v \in Values(G) /\ \A w : Settles(G, w) => w = v
      BY <2>1, SettledOnce
    <2>3. k \in KeysOf(M) /\ v \in Values(M)
      BY <2>1, <2>2 DEF OfKey, KeysOf, Values
    <2>4. \A w \in Values(M) : Settles(G, w) <=> w = v
      BY <2>1, <2>2
    <2> QED
      BY <2>1, <2>3, <2>4
  <1>3. Summary(sel, cutoff, C).facts =
          {Fact(k, CHOOSE v \in Values(M) : Settles(OfKey(M, k), v), Supported(OfKey(M, k))) :
             k \in {k \in KeysOf(M) : \E v \in Values(M) : Settles(OfKey(M, k), v)}}
    BY <1>1 DEF Summary
  <1>4. ASSUME f \in Summary(sel, cutoff, C).facts
        PROVE  \E k, v : /\ Settles(OfKey(M, k), v)
                         /\ f = Fact(k, v, Supported(OfKey(M, k)))
    <2>1. PICK k : /\ \E v \in Values(M) : Settles(OfKey(M, k), v)
                   /\ f = Fact(k, CHOOSE v \in Values(M) : Settles(OfKey(M, k), v),
                               Supported(OfKey(M, k)))
      BY <1>3, <1>4
    <2>2. PICK v : Settles(OfKey(M, k), v)
      BY <2>1
    <2>3. f = Fact(k, v, Supported(OfKey(M, k)))
      BY <1>2, <2>1, <2>2
    <2> QED
      BY <2>2, <2>3
  <1>5. ASSUME NEW k, NEW v, Settles(OfKey(M, k), v), f = Fact(k, v, Supported(OfKey(M, k)))
        PROVE  f \in Summary(sel, cutoff, C).facts
    <2>1. /\ k \in KeysOf(M) /\ v \in Values(M)
          /\ (CHOOSE w \in Values(M) : Settles(OfKey(M, k), w)) = v
      BY <1>2, <1>5
    <2>2. k \in {j \in KeysOf(M) : \E w \in Values(M) : Settles(OfKey(M, j), w)}
      BY <1>5, <2>1
    <2>3. f = Fact(k, CHOOSE w \in Values(M) : Settles(OfKey(M, k), w), Supported(OfKey(M, k)))
      BY <1>5, <2>1
    <2> QED
      BY <1>3, <2>2, <2>3
  <1> QED
    BY <1>1, <1>4, <1>5 DEF GroupOf

LEMMA SummaryUnresolved ==
  ASSUME NEW sel, NEW cutoff, NEW C, NEW u
  PROVE  u \in Summary(sel, cutoff, C).unresolved <=>
           \E k : Contested(GroupOf(sel, cutoff, C, k))
               /\ u = Unresolved(k, GroupOf(sel, cutoff, C, k))
  <1>1. PICK M : M = Material(sel, cutoff, C)
    OBVIOUS
  <1>2. \A k, v : Settles(OfKey(M, k), v) => v \in Values(M)
    <2> SUFFICES ASSUME NEW k, NEW v, Settles(OfKey(M, k), v)
                 PROVE  v \in Values(M)
      OBVIOUS
    <2>1. v \in Values(OfKey(M, k))
      BY SettledOnce
    <2> QED
      BY <2>1 DEF OfKey, Values
  <1>3. PICK settled : settled = {k \in KeysOf(M) : \E v \in Values(M) : Settles(OfKey(M, k), v)}
    OBVIOUS
  <1>4. Summary(sel, cutoff, C).unresolved =
          {Unresolved(k, OfKey(M, k)) : k \in KeysOf(M) \ settled}
    BY <1>1, <1>3 DEF Summary
  <1>5. \A k : k \in KeysOf(M) \ settled <=> Contested(OfKey(M, k))
    BY <1>1, <1>2, <1>3, GroupHasKey DEF GroupOf, Contested
  <1> QED
    BY <1>1, <1>4, <1>5 DEF GroupOf

\* What a summary says of one key.
LEMMA FactsOfKey ==
  ASSUME NEW sel, NEW cutoff, NEW C, NEW k, NEW f
  PROVE  f \in FactsOf(Summary(sel, cutoff, C), k) <=>
           \E v : /\ Settles(GroupOf(sel, cutoff, C, k), v)
                  /\ f = Fact(k, v, Supported(GroupOf(sel, cutoff, C, k)))
  <1>1. \A j, v, M : Fact(j, v, M).key = j
    BY DEF Fact
  <1>2. f \in FactsOf(Summary(sel, cutoff, C), k) <=>
                      f \in Summary(sel, cutoff, C).facts /\ f.key = k
    BY DEF FactsOf
  <1> QED
    BY <1>1, <1>2, SummaryFacts

LEMMA UnresolvedOfKey ==
  ASSUME NEW sel, NEW cutoff, NEW C, NEW k, NEW u
  PROVE  u \in UnresolvedOf(Summary(sel, cutoff, C), k) <=>
           /\ Contested(GroupOf(sel, cutoff, C, k))
           /\ u = Unresolved(k, GroupOf(sel, cutoff, C, k))
  <1>1. \A j, M : Unresolved(j, M).key = j
    BY DEF Unresolved
  <1>2. u \in UnresolvedOf(Summary(sel, cutoff, C), k) <=>
          u \in Summary(sel, cutoff, C).unresolved /\ u.key = k
    BY DEF UnresolvedOf
  <1>3. u \in Summary(sel, cutoff, C).unresolved <=>
           \E j : Contested(GroupOf(sel, cutoff, C, j))
               /\ u = Unresolved(j, GroupOf(sel, cutoff, C, j))
    BY SummaryUnresolved
  <1> QED
    BY <1>1, <1>2, <1>3, Zenon

\* The state of a key is the settled value of its group.
LEMMA StateOfKey ==
  ASSUME NEW sel, NEW cutoff, NEW C, NEW k
  PROVE  {f.value : f \in FactsOf(Summary(sel, cutoff, C), k)}
           = SettledValues(GroupOf(sel, cutoff, C, k))
  <1>1. PICK G : G = GroupOf(sel, cutoff, C, k)
    OBVIOUS
  <1>2. PICK F : F = FactsOf(Summary(sel, cutoff, C), k)
    OBVIOUS
  <1>3. \A f : f \in F <=> \E v : Settles(G, v) /\ f = Fact(k, v, Supported(G))
    BY <1>1, <1>2, FactsOfKey
  <1>4. \A v : Fact(k, v, Supported(G)).value = v
    BY DEF Fact
  <1>5. \A v : v \in SettledValues(G) <=> Settles(G, v)
    BY SettledOnce DEF SettledValues
  <1>6. \A v : v \in {f.value : f \in F} <=> Settles(G, v)
    BY <1>3, <1>4
  <1> QED
    BY <1>1, <1>2, <1>5, <1>6

-----------------------------------------------------------------------------
(* What the service validates of a summary.                                *)

\* The candidates that a snapshot can hold.
Legal(C) ==
  /\ IsFiniteSet(C)
  /\ \A c \in C : /\ c.extent \in Extents /\ c.id \in Nat /\ c.recorded \in Nat
                  /\ c.supporting \cup c.contradicting # {}
  /\ \A c, d \in C : c.id = d.id => c = d

LEMMA GroupIsPart ==
  ASSUME NEW sel, NEW cutoff, NEW C, NEW k
  PROVE  /\ GroupOf(sel, cutoff, C, k) \subseteq C
         /\ \A c \in GroupOf(sel, cutoff, C, k) : c.key = k
  BY DEF GroupOf, OfKey, Material

LEMMA AtLeastTwo ==
  ASSUME NEW S, IsFiniteSet(S), NEW a \in S, NEW b \in S, a # b
  PROVE  Cardinality(S) >= 2
  <1>1. IsFiniteSet({a}) /\ Cardinality({a}) = 1
    BY FS_Singleton
  <1>2. PICK T : T = {a} \cup {b}
    OBVIOUS
  <1>3. Cardinality(T) = 2
    <2>1. b \notin {a}
      OBVIOUS
    <2> QED
      BY <1>1, <1>2, <2>1, FS_AddElement
  <1>4. T \in SUBSET S
    BY <1>2
  <1>5. Cardinality(T) <= Cardinality(S)
    BY <1>4, FS_Subset
  <1>6. Cardinality(S) \in Nat
    BY FS_CardinalityType
  <1> QED
    BY <1>3, <1>5, <1>6

\* Every candidate of a group has evidence (observation.NewObservation demands it).
Evident(M) == \A c \in M : c.supporting \cup c.contradicting # {}

LEMMA FactIsValid ==
  ASSUME NEW M, M # {}, Evident(M),
         NEW k, NEW v, NEW f, f = Fact(k, v, M)
  PROVE  /\ ValidFact(f) /\ f.key = k /\ f.value = v
         /\ \A i : i \in f.ids <=> \E c \in M : c.id = i
  <1>2. /\ f.key = k /\ f.value = v /\ f.ids = {c.id : c \in M}
        /\ f.supporting = UNION {c.supporting : c \in M}
        /\ f.contradicting = UNION {c.contradicting : c \in M}
    BY DEF Fact
  <1>3. PICK c \in M : TRUE
    OBVIOUS
  <1>4. PICK e : e \in c.supporting \/ e \in c.contradicting
    BY <1>3 DEF Evident
  <1>5. e \in f.supporting \/ e \in f.contradicting
    BY <1>2, <1>3, <1>4
  <1>6. \A i : i \in f.ids <=> \E d \in M : d.id = i
    BY <1>2
  <1>7. f.ids # {}
    BY <1>3, <1>6
  <1> QED
    BY <1>2, <1>5, <1>6, <1>7 DEF ValidFact

LEMMA UnresolvedIsValid ==
  ASSUME NEW M, IsFiniteSet(M), M # {}, Evident(M),
         NEW k, NEW u, u = Unresolved(k, M)
  PROVE  /\ u.key = k
         /\ u.candidates # {}
         /\ u.reason = "conflicting-values" => Cardinality(u.candidates) >= 2
         /\ \A f, g \in u.candidates : f.value = g.value => f = g
         /\ \A f \in u.candidates : f.key = k /\ ValidFact(f) /\ f.ids \subseteq {c.id : c \in M}
         /\ \A c \in M : \E f \in u.candidates : f.value = c.value /\ c.id \in f.ids
  <1>1. u.key = k /\ u.reason = UnresolvedReason(M)
    BY DEF Unresolved
  <1>2. PICK F : F = [v \in Values(M) |-> Fact(k, v, {c \in M : c.value = v})]
    OBVIOUS
  <1>3. u.candidates = {F[v] : v \in Values(M)}
    BY <1>2 DEF Unresolved
  <1>4. ASSUME NEW v \in Values(M)
        PROVE  /\ F[v].key = k /\ F[v].value = v /\ ValidFact(F[v])
               /\ \A i : i \in F[v].ids <=> \E c \in M : c.value = v /\ c.id = i
    <2>1. PICK L : L = {c \in M : c.value = v}
      OBVIOUS
    <2>2. L # {} /\ Evident(L)
      BY <2>1 DEF Values, Evident
    <2>3. PICK f : f = Fact(k, v, L)
      OBVIOUS
    <2>4. F[v] = f
      BY <1>2, <2>1, <2>3
    <2>5. /\ f.key = k /\ f.value = v /\ ValidFact(f)
          /\ \A i : i \in f.ids <=> \E c \in L : c.id = i
      BY <2>2, <2>3, FactIsValid
    <2> QED
      BY <2>1, <2>4, <2>5
  <1>5. u.candidates # {}
    <2>1. PICK c \in M : TRUE
      OBVIOUS
    <2>2. c.value \in Values(M)
      BY DEF Values
    <2> QED
      BY <1>3, <2>2
  <1>6. \A f, g \in u.candidates : f.value = g.value => f = g
    BY <1>3, <1>4
  <1>7. \A f \in u.candidates : f.key = k /\ ValidFact(f) /\ f.ids \subseteq {c.id : c \in M}
    BY <1>3, <1>4
  <1>8. ASSUME u.reason = "conflicting-values"
        PROVE  Cardinality(u.candidates) >= 2
    <2>1. Conflicting(M)
      BY <1>1, <1>8 DEF UnresolvedReason
    <2>2. PICK c \in M, d \in M : c.value # d.value
      BY <2>1 DEF Conflicting, Supported
    <2>3. c.value \in Values(M) /\ d.value \in Values(M)
      BY DEF Values
    <2>4. F[c.value] # F[d.value]
      BY <1>4, <2>2, <2>3
    <2>5. IsFiniteSet(Values(M))
      <3>1. PICK g : g = [x \in M |-> x.value]
        OBVIOUS
      <3>2. {g[x] : x \in M} = Values(M)
        BY <3>1 DEF Values
      <3>3. IsFiniteSet({g[x] : x \in M})
        BY FiniteImage
      <3> QED
        BY <3>2, <3>3
    <2>6. IsFiniteSet(u.candidates)
      BY <1>3, <2>5, FiniteImage
    <2>7. F[c.value] \in u.candidates /\ F[d.value] \in u.candidates
      BY <1>3, <2>3
    <2> QED
      BY <2>4, <2>6, <2>7, AtLeastTwo
  <1>9. ASSUME NEW c \in M
        PROVE  \E f \in u.candidates : f.value = c.value /\ c.id \in f.ids
    <2>1. c.value \in Values(M)
      BY DEF Values
    <2>2. c.id \in F[c.value].ids /\ F[c.value].value = c.value
      BY <1>4, <2>1
    <2> QED
      BY <1>3, <2>1, <2>2
  <1> QED
    BY <1>1, <1>5, <1>6, <1>7, <1>8, <1>9

\* The fact of a settled key cites the candidates that hold.
LEMMA SettledFactIsValid ==
  ASSUME NEW M, NEW k, NEW v, Settles(M, v), NEW f, f = Fact(k, v, Supported(M))
  PROVE  /\ f.key = k /\ f.value = v /\ ValidFact(f)
         /\ f.ids \subseteq {c.id : c \in M}
  <1>1. PICK S : S = Supported(M)
    OBVIOUS
  <1>2. S # {} /\ \A c \in S : c \in M /\ Holds(c)
    BY <1>1, SettledOnce, SupportedAre
  <1>3. Evident(S)
    BY <1>2 DEF Holds, Evident
  <1>4. ValidFact(f) /\ f.key = k /\ f.value = v 
          /\ \A i : i \in f.ids <=> \E c \in S : c.id = i
    BY <1>1, <1>2, <1>3, FactIsValid
  <1> QED
    BY <1>2, <1>4

LEMMA LegalGroup ==
  ASSUME NEW C, Legal(C), NEW sel, NEW cutoff, NEW k, NEW M, M = GroupOf(sel, cutoff, C, k)
  PROVE  /\ IsFiniteSet(M) /\ M \subseteq C
         /\ Evident(M)
  <1>1. M \in SUBSET C
    BY GroupIsPart
  <1> QED
    BY <1>1, FS_Subset DEF Legal, Evident

LEMMA SummaryIsValid ==
  ASSUME NEW C, Legal(C), NEW sel, NEW cutoff, NEW s, s = Summary(sel, cutoff, C)
  PROVE  ValidMaterial(s.facts, s.unresolved) /\ ValidMaterial({}, s.unresolved)
  <1> DEFINE G(k) == GroupOf(sel, cutoff, C, k)
  <1>1. \A f : f \in s.facts <=> \E k, v : Settles(G(k), v) /\ f = Fact(k, v, Supported(G(k)))
    BY SummaryFacts
  <1>2. \A u : u \in s.unresolved <=> \E k : Contested(G(k)) /\ u = Unresolved(k, G(k))
    BY SummaryUnresolved
  <1>3. \A k : /\ IsFiniteSet(G(k))
               /\ Evident(G(k))
    BY LegalGroup
  <1> HIDE DEF G
  <1>4. ASSUME NEW f \in s.facts
        PROVE  /\ ValidFact(f) /\ Settles(G(f.key), f.value)
               /\ f = Fact(f.key, f.value, Supported(G(f.key)))
    <2>1. PICK k, v : Settles(G(k), v) /\ f = Fact(k, v, Supported(G(k)))
      BY <1>1, <1>4
    <2>2. f.key = k /\ f.value = v /\ ValidFact(f)
      BY <2>1, SettledFactIsValid
    <2> QED
      BY <2>1, <2>2
  <1>5. \A f, g \in s.facts : f.key = g.key => f = g
    <2> SUFFICES ASSUME NEW f \in s.facts, NEW g \in s.facts, f.key = g.key
                 PROVE  f = g
      OBVIOUS
    <2>1. PICK M : M = G(f.key)
      OBVIOUS
    <2>2. Settles(M, f.value) /\ Settles(M, g.value)
      BY <1>4, <2>1
    <2>3. f.value = g.value
      BY <2>2 DEF Settles
    <2> QED
      BY <1>4, <2>3
  <1>6. ASSUME NEW u \in s.unresolved
        PROVE  /\ u = Unresolved(u.key, G(u.key)) /\ Contested(G(u.key))
               /\ u.candidates # {}
               /\ u.reason = "conflicting-values" => Cardinality(u.candidates) >= 2
               /\ \A f, g \in u.candidates : f.value = g.value => f = g
               /\ \A f \in u.candidates : f.key = u.key /\ ValidFact(f)
    <2>1. PICK k : Contested(G(k)) /\ u = Unresolved(k, G(k))
      BY <1>2, <1>6
    <2>2. PICK M : M = G(k)
      OBVIOUS
    <2>3. /\ M # {} /\ IsFiniteSet(M) /\ u = Unresolved(k, M)
          /\ Evident(M)
      BY <1>3, <2>1, <2>2 DEF Contested
    <2>4. /\ u.key = k
          /\ u.candidates # {}
          /\ u.reason = "conflicting-values" => Cardinality(u.candidates) >= 2
          /\ \A f, g \in u.candidates : f.value = g.value => f = g
          /\ \A f \in u.candidates : f.key = k /\ ValidFact(f)
      BY <2>3, UnresolvedIsValid
    <2> QED
      BY <2>1, <2>4
  <1>7. \A u, w \in s.unresolved : u.key = w.key => u = w
    BY <1>6
  <1>8. \A u \in s.unresolved : \A f \in s.facts : f.key # u.key
    BY <1>4, <1>6 DEF Contested
  <1> QED
    BY <1>4, <1>5, <1>6, <1>7, <1>8 DEF ValidMaterial

-----------------------------------------------------------------------------
(* Differences.                                                            *)

\* An id is one of a key's candidates.
IdOf(C, k, i) == \E c \in C : c.id = i /\ c.key = k

\* What the facts of one key are.
LEMMA OneFact ==
  ASSUME NEW C, Legal(C), NEW sel, NEW cutoff, NEW k, NEW F, F = FactsOf(Summary(sel, cutoff, C), k)
  PROVE  /\ \A f, g \in F : f = g
         /\ \A f \in F : /\ f.key = k /\ ValidFact(f) /\ \A i \in f.ids : IdOf(C, k, i)
                         /\ \A u : u \notin UnresolvedOf(Summary(sel, cutoff, C), k)
  <1>1. PICK M : M = GroupOf(sel, cutoff, C, k)
    OBVIOUS
  <1>2. \A f : f \in F <=> \E v : Settles(M, v) /\ f = Fact(k, v, Supported(M))
    BY <1>1, FactsOfKey
  <1>3. ASSUME NEW f \in F, NEW g \in F
        PROVE  f = g
    <2>1. PICK v : Settles(M, v) /\ f = Fact(k, v, Supported(M))
      BY <1>2
    <2>2. PICK w : Settles(M, w) /\ g = Fact(k, w, Supported(M))
      BY <1>2
    <2>3. v = w
      BY <2>1, <2>2 DEF Settles
    <2> QED
      BY <2>1, <2>2, <2>3
  <1>4. ASSUME NEW f \in F
        PROVE  /\ f.key = k /\ ValidFact(f) /\ \A i \in f.ids : IdOf(C, k, i)
               /\ \A u : u \notin UnresolvedOf(Summary(sel, cutoff, C), k)
    <2>1. PICK v : Settles(M, v) /\ f = Fact(k, v, Supported(M))
      BY <1>2
    <2>2. f.key = k /\ ValidFact(f) /\ f.ids \subseteq {c.id : c \in M}
      BY <2>1, SettledFactIsValid
    <2>3. \A c \in M : c \in C /\ c.key = k
      BY <1>1, GroupIsPart
    <2>4. ~Contested(M)
      BY <2>1 DEF Contested
    <2> QED
      BY <1>1, <2>2, <2>3, <2>4, UnresolvedOfKey DEF IdOf
  <1> QED
    BY <1>3, <1>4

LEMMA OneUnresolved ==
  ASSUME NEW C, Legal(C), NEW sel, NEW cutoff, NEW k,
         NEW U, U = UnresolvedOf(Summary(sel, cutoff, C), k)
  PROVE  /\ \A u, w \in U : u = w
         /\ ValidMaterial({}, U)
         /\ \A u \in U : u.key = k /\ \A f \in u.candidates : \A i \in f.ids : IdOf(C, k, i)
  <1>1. PICK M : M = GroupOf(sel, cutoff, C, k)
    OBVIOUS
  <1>2. \A u : u \in U <=> Contested(M) /\ u = Unresolved(k, M)
    BY <1>1, UnresolvedOfKey
  <1>3. \A u, w \in U : u = w
    BY <1>2
  <1>4. PICK s : s = Summary(sel, cutoff, C)
    OBVIOUS
  <1>5. U \subseteq s.unresolved /\ \A u \in U : u.key = k
    BY <1>4 DEF UnresolvedOf
  <1>6. ValidMaterial({}, s.unresolved)
    BY <1>4, SummaryIsValid
  <1>7. ValidMaterial({}, U)
    BY <1>5, <1>6 DEF ValidMaterial
  <1>8. ASSUME NEW u \in U, NEW f \in u.candidates, NEW i \in f.ids
        PROVE  IdOf(C, k, i)
    <2>1. M # {} /\ u = Unresolved(k, M)
      BY <1>2 DEF Contested
    <2>2. IsFiniteSet(M) /\ Evident(M)
      BY <1>1, LegalGroup
    <2>3. f.ids \subseteq {c.id : c \in M}
      BY <2>1, <2>2, UnresolvedIsValid
    <2>4. \A c \in M : c \in C /\ c.key = k
      BY <1>1, GroupIsPart
    <2> QED
      BY <2>3, <2>4 DEF IdOf
  <1> QED
    BY <1>3, <1>5, <1>7, <1>8

\* Of two sets of at most one fact each.
LEMMA ChangeIsValid ==
  ASSUME NEW b, NEW a, NEW k, Differ(b, a),
         \A f, g \in b : f = g, \A f, g \in a : f = g,
         \A f \in b \cup a : f.key = k /\ ValidFact(f),
         NEW c, c.kind = ChangeKind(b, a), c.key = k, c.before = b, c.after = a
  PROVE  ValidChange(c)
  <1>1. b # {} \/ a # {}
    BY DEF Differ
  <1>2. \A f \in b : b = {f}
    OBVIOUS
  <1>3. \A f \in a : a = {f}
    OBVIOUS
  <1>4. \A f \in b, g \in a : f.value # g.value
    <2> SUFFICES ASSUME NEW f \in b, NEW g \in a, f.value = g.value
                 PROVE  FALSE
      OBVIOUS
    <2>1. b = {f} /\ a = {g}
      BY <1>2, <1>3
    <2>2. {x.value : x \in b} = {f.value} /\ {x.value : x \in a} = {g.value}
      BY <2>1
    <2> QED
      BY <2>2 DEF Differ
  <1> QED
    BY <1>1, <1>4 DEF ValidChange, ChangeKind

\* What the transitions at a boundary are.
LEMMA TransitionsAre ==
  ASSUME NEW b, NEW a, NEW at, NEW t
  PROVE  t \in Transitions(b, a, at) <=>
           \E k : /\ Differ(FactsOf(b, k), FactsOf(a, k))
                  /\ t = [kind |-> ChangeKind(FactsOf(b, k), FactsOf(a, k)), key |-> k, at |-> at,
                          before |-> FactsOf(b, k), after |-> FactsOf(a, k),
                          unresolved |-> UnresolvedOf(b, k) \cup UnresolvedOf(a, k)]
  <1>1. ASSUME NEW k, Differ(FactsOf(b, k), FactsOf(a, k))
        PROVE  k \in FactKeys(b) \cup FactKeys(a)
    <2>1. FactsOf(b, k) # {} \/ FactsOf(a, k) # {}
      BY <1>1 DEF Differ
    <2> QED
      BY <2>1 DEF FactsOf, FactKeys
  <1>2. PICK tr : tr = [k \in FactKeys(b) \cup FactKeys(a) |->
                          [kind |-> ChangeKind(FactsOf(b, k), FactsOf(a, k)), key |-> k, at |-> at,
                           before |-> FactsOf(b, k), after |-> FactsOf(a, k),
                           unresolved |-> UnresolvedOf(b, k) \cup UnresolvedOf(a, k)]]
    OBVIOUS
  <1>3. t \in Transitions(b, a, at) <=>
          \E k \in FactKeys(b) \cup FactKeys(a) :
            /\ Differ(FactsOf(b, k), FactsOf(a, k))
            /\ t = tr[k]
    BY <1>2 DEF Transitions
  <1> QED
    BY <1>1, <1>2, <1>3

\* A transition at a boundary between two states of the same candidates.
LEMMA TransitionIsValid ==
  ASSUME NEW C, Legal(C), NEW cutoff, NEW s1, NEW s2, NEW at, NEW k, NEW b, NEW a,
         b = Summary(s1, cutoff, C), a = Summary(s2, cutoff, C),
         Differ(FactsOf(b, k), FactsOf(a, k)),
         NEW t, t = [kind |-> ChangeKind(FactsOf(b, k), FactsOf(a, k)), key |-> k, at |-> at,
                     before |-> FactsOf(b, k), after |-> FactsOf(a, k),
                     unresolved |-> UnresolvedOf(b, k) \cup UnresolvedOf(a, k)]
  PROVE  /\ ValidChange(t) /\ ValidMaterial({}, t.unresolved)
         /\ \A u \in t.unresolved : u.key = k
         /\ Cites(t) # {} /\ \A i \in Cites(t) : IdOf(C, k, i)
  <1>1. PICK fb : fb = FactsOf(b, k)
    OBVIOUS
  <1>2. PICK fa : fa = FactsOf(a, k)
    OBVIOUS
  <1>3. PICK ub : ub = UnresolvedOf(b, k)
    OBVIOUS
  <1>4. PICK ua : ua = UnresolvedOf(a, k)
    OBVIOUS
  <1>5. /\ t.kind = ChangeKind(fb, fa) /\ t.key = k /\ t.at = at
        /\ t.before = fb /\ t.after = fa /\ t.unresolved = ub \cup ua
    BY <1>1, <1>2, <1>3, <1>4
  <1>6. /\ \A f, g \in fb : f = g
        /\ \A f \in fb : /\ f.key = k /\ ValidFact(f) /\ \A i \in f.ids : IdOf(C, k, i)
                         /\ \A u : u \notin ub
    BY <1>1, <1>3, OneFact
  <1>7. /\ \A f, g \in fa : f = g
        /\ \A f \in fa : /\ f.key = k /\ ValidFact(f) /\ \A i \in f.ids : IdOf(C, k, i)
                         /\ \A u : u \notin ua
    BY <1>2, <1>4, OneFact
  <1>8. /\ ValidMaterial({}, ub) /\ \A u, w \in ub : u = w
        /\ \A u \in ub : u.key = k /\ \A f \in u.candidates : \A i \in f.ids : IdOf(C, k, i)
    BY <1>3, OneUnresolved
  <1>9. /\ ValidMaterial({}, ua) /\ \A u, w \in ua : u = w
        /\ \A u \in ua : u.key = k /\ \A f \in u.candidates : \A i \in f.ids : IdOf(C, k, i)
    BY <1>4, OneUnresolved
  <1>10. Differ(fb, fa)
    BY <1>1, <1>2
  <1>11. ValidChange(t)
    BY <1>5, <1>6, <1>7, <1>10, ChangeIsValid
  <1>12. PICK f : f \in fb \/ f \in fa
    BY <1>10 DEF Differ
  <1>13. ub = {} \/ ua = {}
    BY <1>6, <1>7, <1>12
  <1>14. ValidMaterial({}, ub \cup ua)
    BY <1>8, <1>9, <1>13
  <1>15. PICK N : N = Cites(t)
    OBVIOUS
  <1>16. \A i : i \in N <=> \/ \E g \in fb : i \in g.ids
                            \/ \E g \in fa : i \in g.ids
                            \/ \E u \in ub : \E g \in u.candidates : i \in g.ids
                            \/ \E u \in ua : \E g \in u.candidates : i \in g.ids
    BY <1>5, <1>15 DEF Cites
  <1>17. N # {}
    <2>1. f.ids # {}
      BY <1>6, <1>7, <1>12 DEF ValidFact
    <2> QED
      BY <1>12, <1>16, <2>1
  <1>18. \A i \in N : IdOf(C, k, i)
    BY <1>6, <1>7, <1>8, <1>9, <1>16
  <1> QED
    BY <1>5, <1>8, <1>9, <1>11, <1>14, <1>15, <1>17, <1>18

-----------------------------------------------------------------------------
(* Least numbers.                                                          *)

LEMMA LeastOf ==
  ASSUME NEW S, S \subseteq Nat, S # {}
  PROVE  \E x \in S : \A y \in S : x <= y
  <1>1. PICK R : R = OpToRel(<, Nat)
    OBVIOUS
  <1>2. IsWellFoundedOn(R, Nat)
    BY <1>1, NatLessThanWellFounded
  <1>3. PICK x \in S : \A y \in S : ~(<<y, x>> \in R)
    BY <1>2, WFMin
  <1>4. \A y, z \in Nat : y < z => <<y, z>> \in R
    BY <1>1 DEF OpToRel
  <1>5. ASSUME NEW y \in S
        PROVE  x <= y
    <2>1. ~(y < x)
      BY <1>3, <1>4
    <2> QED
      BY <2>1
  <1> QED
    BY <1>5

LEMMA MinIsLeast ==
  ASSUME NEW S, S \subseteq Nat, S # {}
  PROVE  Min(S) \in S /\ \A y \in S : Min(S) <= y
  BY LeastOf DEF Min

-----------------------------------------------------------------------------
(* Chronological order.                                                    *)

IsRank(a) == a[1] \in Nat /\ a[2] \in Nat /\ a[3] \in Nat

LEMMA EarlierIsOrder ==
  ASSUME NEW a, NEW b, NEW c, IsRank(a), IsRank(b), IsRank(c)
  PROVE  /\ ~Earlier(a, a)
         /\ Earlier(a, b) /\ Earlier(b, c) => Earlier(a, c)
         /\ Earlier(a, b) \/ Earlier(b, a) \/ (a[1] = b[1] /\ a[2] = b[2] /\ a[3] = b[3])
         /\ Earlier(a, b) => a[1] <= b[1]
  BY DEF Earlier, IsRank

\* Elements that no two ranks confuse: each has one place, and the places run
\* with the ranks.
LEMMA ChronologicalOrders ==
  ASSUME NEW S, IsFiniteSet(S), NEW rank, \A s \in S : IsRank(rank[s]),
         \A s, t \in S : (/\ rank[s][1] = rank[t][1]
                          /\ rank[s][2] = rank[t][2]
                          /\ rank[s][3] = rank[t][3]) => s = t,
         NEW f, f = Chronological(S, rank)
  PROVE  /\ Len(f) \in Nat
         /\ \A i \in DOMAIN f : f[i] \in S
         /\ \A s \in S : \E i \in DOMAIN f : f[i] = s
         /\ \A i, j \in DOMAIN f : f[i] = f[j] => i = j
         /\ \A i, j \in DOMAIN f : i < j => rank[f[i]][1] <= rank[f[j]][1]
  <1> DEFINE E(t, s) == Earlier(rank[t], rank[s])
             before(s) == {t \in S : E(t, s)}
  <1>1. /\ \A s \in S : ~E(s, s)
        /\ \A s, t, u \in S : E(s, t) /\ E(t, u) => E(s, u)
        /\ \A s, t \in S : E(s, t) \/ E(t, s) \/ s = t
    BY EarlierIsOrder
  <1>2. \A s, t \in S : E(s, t) => rank[s][1] <= rank[t][1]
    BY EarlierIsOrder
  <1>3. PICK n : n = Cardinality(S) /\ n \in Nat
    BY FS_CardinalityType
  <1>4. PICK place : place = [s \in S |-> Cardinality(before(s))]
    OBVIOUS
  <1>5. f = [i \in 1..n |-> CHOOSE s \in S : Cardinality(before(s)) = i - 1]
    BY <1>3 DEF Chronological
  <1>6. ASSUME NEW s \in S
        PROVE  /\ IsFiniteSet(before(s)) /\ place[s] = Cardinality(before(s))
               /\ place[s] \in 0..(n - 1)
    <2>1. PICK B : B = before(s)
      OBVIOUS
    <2>2. B \in SUBSET S /\ s \notin B
      BY <1>1, <2>1
    <2>3. IsFiniteSet(B) /\ Cardinality(B) <= n /\ (n = Cardinality(B) => S = B)
      BY <1>3, <2>2, FS_Subset
    <2>4. Cardinality(B) \in Nat
      BY <2>3, FS_CardinalityType
    <2>5. Cardinality(B) # n
      BY <2>2, <2>3
    <2>6. Cardinality(B) \in 0..(n - 1)
      BY <1>3, <2>3, <2>4, <2>5
    <2> QED
      BY <1>4, <2>1, <2>3, <2>6
  <1>7. ASSUME NEW s \in S, NEW t \in S, E(s, t)
        PROVE  place[s] < place[t]
    <2>1. PICK B : B = before(t)
      OBVIOUS
    <2>2. PICK A : A = before(s)
      OBVIOUS
    <2>3. A \in SUBSET B /\ s \in B /\ s \notin A
      BY <1>1, <1>7, <2>1, <2>2
    <2>4. IsFiniteSet(B) /\ place[t] = Cardinality(B) /\ place[s] = Cardinality(A)
      BY <1>6, <2>1, <2>2
    <2>5. Cardinality(A) <= Cardinality(B) /\ (Cardinality(B) = Cardinality(A) => B = A)
      BY <2>3, <2>4, FS_Subset
    <2>6. Cardinality(A) # Cardinality(B)
      BY <2>3, <2>5
    <2>7. place[s] \in 0..(n - 1) /\ place[t] \in 0..(n - 1)
      BY <1>6
    <2> QED
      BY <1>3, <2>4, <2>5, <2>6, <2>7
  <1> HIDE DEF E, before
  <1>8. \A s, t \in S : place[s] = place[t] => s = t
    <2> SUFFICES ASSUME NEW s \in S, NEW t \in S, place[s] = place[t]
                 PROVE  s = t
      OBVIOUS
    <2>1. place[s] \in Int /\ place[t] \in Int
      BY <1>3, <1>6
    <2>2. ~E(s, t) /\ ~E(t, s)
      BY <1>7, <2>1
    <2> QED
      BY <1>1, <2>2
  <1>9. place \in Injection(S, 0..(n - 1))
    BY <1>4, <1>6, <1>8 DEF Injection, IsInjective
  <1>10. IsFiniteSet(0..(n - 1)) /\ Cardinality(0..(n - 1)) = n
    <2>1. 0 \in Int /\ n - 1 \in Int
      BY <1>3
    <2>2. /\ IsFiniteSet(0..(n - 1))
          /\ Cardinality(0..(n - 1)) = IF 0 > n - 1 THEN 0 ELSE (n - 1) - 0 + 1
      BY <2>1, FS_Interval
    <2> QED
      BY <1>3, <2>2
  <1>11. place \in Surjection(S, 0..(n - 1))
    BY <1>3, <1>9, <1>10, FS_Injection
  <1>12. \A i \in 1..n : \E s \in S : place[s] = i - 1
    <2> SUFFICES ASSUME NEW i \in 1..n
                 PROVE  \E s \in S : place[s] = i - 1
      OBVIOUS
    <2>1. i - 1 \in 0..(n - 1)
      BY <1>3
    <2> QED
      BY <1>11, <2>1 DEF Surjection
  <1>13. \A i \in 1..n : f[i] \in S /\ place[f[i]] = i - 1
    <2> SUFFICES ASSUME NEW i \in 1..n
                 PROVE  f[i] \in S /\ place[f[i]] = i - 1
      OBVIOUS
    <2>1. \E s \in S : Cardinality(before(s)) = i - 1
      BY <1>6, <1>12
    <2>2. f[i] = CHOOSE s \in S : Cardinality(before(s)) = i - 1
      BY <1>5
    <2>3. f[i] \in S /\ Cardinality(before(f[i])) = i - 1
      BY <2>1, <2>2
    <2> QED
      BY <1>6, <2>3
  <1>14. DOMAIN f = 1..n
    BY <1>5
  <1>15. \A i, j \in 1..n : i < j => E(f[i], f[j])
    <2> SUFFICES ASSUME NEW i \in 1..n, NEW j \in 1..n, i < j
                 PROVE  E(f[i], f[j])
      OBVIOUS
    <2>1. place[f[i]] < place[f[j]]
      BY <1>3, <1>13
    <2>2. PICK s, t : s = f[i] /\ t = f[j] /\ s \in S /\ t \in S
      BY <1>13
    <2>3. place[s] \in Int /\ place[t] \in Int /\ place[s] < place[t]
      BY <1>3, <1>6, <2>1, <2>2
    <2>4. ~E(t, s) /\ s # t
      BY <1>7, <2>2, <2>3
    <2> QED
      BY <1>1, <2>2, <2>4
  <1>16. ASSUME NEW s \in S
         PROVE  \E i \in 1..n : f[i] = s
    <2>1. PICK i \in 1..n : i = place[s] + 1
      BY <1>3, <1>6
    <2>2. place[s] = i - 1
      BY <1>6, <2>1
    <2> QED
      BY <1>8, <1>13, <2>2
  <1>17. \A i, j \in 1..n : f[i] = f[j] => i = j
    <2> SUFFICES ASSUME NEW i \in 1..n, NEW j \in 1..n, f[i] = f[j]
                 PROVE  i = j
      OBVIOUS
    <2>1. i - 1 = j - 1
      BY <1>13
    <2> QED
      BY <1>3, <2>1
  <1>18. \A i, j \in 1..n : i < j => rank[f[i]][1] <= rank[f[j]][1]
    BY <1>2, <1>13, <1>15
  <1>19. Len(f) \in Nat
    <2>1. f \in [1..n -> S]
      BY <1>5, <1>13
    <2>2. f \in Seq(S)
      BY <1>3, <2>1
    <2> QED
      BY <2>2
  <1> QED
    BY <1>13, <1>14, <1>16, <1>17, <1>18, <1>19

-----------------------------------------------------------------------------
(* Trajectories.                                                           *)

LEMMA BoundariesAre ==
  ASSUME NEW sel, Selection(sel), sel.kind = "window", NEW cutoff, NEW C, Legal(C)
  PROVE  /\ sel.start \in Nat \ {0} /\ sel.end \in Nat /\ sel.start < sel.end
         /\ sel.start \in Boundaries(sel, cutoff, C) /\ sel.end \in Boundaries(sel, cutoff, C)
         /\ Boundaries(sel, cutoff, C) \subseteq sel.start..sel.end
  <1>1. PICK s, e : s = sel.start /\ e = sel.end /\ s \in Nat \ {0} /\ e \in Nat /\ s < e
    BY DEF Selection
  <1>2. \A c \in C : c.extent.start \in Nat /\ c.extent.end \in Nat
    BY DEF Legal, Extents
  <1>3. ASSUME NEW b \in Boundaries(sel, cutoff, C)
        PROVE  b \in s..e
    <2>1. \/ b = s \/ b = e
          \/ \E c \in C : b = c.extent.start /\ b >= s /\ b < e
          \/ \E c \in C : b = c.extent.end /\ b > s /\ b < e
      BY <1>1 DEF Boundaries
    <2> QED
      BY <1>1, <1>2, <2>1
  <1>4. s \in Boundaries(sel, cutoff, C) /\ e \in Boundaries(sel, cutoff, C)
    BY <1>1 DEF Boundaries
  <1> QED
    BY <1>1, <1>3, <1>4

\* The state on either side of a boundary is a summary.
LEMMA StatesAreSummaries ==
  ASSUME NEW sel, NEW cutoff, NEW C, NEW b
  PROVE  /\ \E x : StateBefore(sel, cutoff, C, b) = Summary(x, cutoff, C)
         /\ \E x : StateFrom(sel, cutoff, C, b) = Summary(x, cutoff, C)
  BY DEF StateBefore, StateFrom, Partition

TransitionAt(b, a, k, at) ==
  [kind |-> ChangeKind(FactsOf(b, k), FactsOf(a, k)), key |-> k, at |-> at,
   before |-> FactsOf(b, k), after |-> FactsOf(a, k),
   unresolved |-> UnresolvedOf(b, k) \cup UnresolvedOf(a, k)]

LEMMA TrajectoryIs ==
  ASSUME NEW sel, NEW cutoff, NEW C, NEW t
  PROVE  t \in Trajectory(sel, cutoff, C) <=>
           \E b \in Boundaries(sel, cutoff, C) \ {sel.end} : \E k :
             /\ Differ(FactsOf(StateBefore(sel, cutoff, C, b), k),
                       FactsOf(StateFrom(sel, cutoff, C, b), k))
             /\ t = TransitionAt(StateBefore(sel, cutoff, C, b),
                                 StateFrom(sel, cutoff, C, b), k, b)
  <1>1. t \in Trajectory(sel, cutoff, C) <=>
          \E b \in Boundaries(sel, cutoff, C) \ {sel.end} :
            t \in Transitions(StateBefore(sel, cutoff, C, b), StateFrom(sel, cutoff, C, b), b)
    BY DEF Trajectory
  <1>2. \A b, a, at : t \in Transitions(b, a, at) <=>
          \E k : Differ(FactsOf(b, k), FactsOf(a, k)) /\ t = TransitionAt(b, a, k, at)
    BY TransitionsAre DEF TransitionAt
  <1> QED
    BY <1>1, <1>2

LEMMA TrajectoryIsValid ==
  ASSUME NEW sel, Selection(sel), sel.kind = "window", NEW cutoff, NEW C, Legal(C),
         NEW T, T = Trajectory(sel, cutoff, C)
  PROVE  /\ \A t, u \in T : t.key = u.key /\ t.at = u.at => t = u
         /\ \A t \in T : /\ ValidChange(t) /\ ValidMaterial({}, t.unresolved)
                         /\ \A u \in t.unresolved : u.key = t.key
                         /\ t.at \in sel.start..(sel.end - 1)
                         /\ Cites(t) # {} /\ \A i \in Cites(t) : IdOf(C, t.key, i)
  <1> DEFINE before(b) == StateBefore(sel, cutoff, C, b)
             from(b) == StateFrom(sel, cutoff, C, b)
  <1>1. \A t : t \in T <=>
          \E b \in Boundaries(sel, cutoff, C) \ {sel.end} : \E k :
            /\ Differ(FactsOf(before(b), k), FactsOf(from(b), k))
            /\ t = TransitionAt(before(b), from(b), k, b)
    BY TrajectoryIs
  <1>2. \A b : \E x, y : before(b) = Summary(x, cutoff, C) /\ from(b) = Summary(y, cutoff, C)
    BY StatesAreSummaries
  <1> HIDE DEF before, from
  <1>3. ASSUME NEW t \in T
        PROVE  /\ t = TransitionAt(before(t.at), from(t.at), t.key, t.at)
               /\ ValidChange(t) /\ ValidMaterial({}, t.unresolved)
               /\ \A u \in t.unresolved : u.key = t.key
               /\ t.at \in sel.start..(sel.end - 1)
               /\ Cites(t) # {} /\ \A i \in Cites(t) : IdOf(C, t.key, i)
    <2>1. PICK b \in Boundaries(sel, cutoff, C) \ {sel.end} : \E k :
            /\ Differ(FactsOf(before(b), k), FactsOf(from(b), k))
            /\ t = TransitionAt(before(b), from(b), k, b)
      BY <1>1, <1>3
    <2>2. PICK k : /\ Differ(FactsOf(before(b), k), FactsOf(from(b), k))
                   /\ t = TransitionAt(before(b), from(b), k, b)
      BY <2>1
    <2>3. t.key = k /\ t.at = b
      BY <2>2 DEF TransitionAt
    <2>4. b \in sel.start..(sel.end - 1)
      BY BoundariesAre
    <2>5. PICK x, y : before(b) = Summary(x, cutoff, C) /\ from(b) = Summary(y, cutoff, C)
      BY <1>2
    <2>6. PICK p, a : p = before(b) /\ a = from(b)
      OBVIOUS
    <2>7. /\ p = Summary(x, cutoff, C) /\ a = Summary(y, cutoff, C)
          /\ Differ(FactsOf(p, k), FactsOf(a, k))
          /\ t = [kind |-> ChangeKind(FactsOf(p, k), FactsOf(a, k)), key |-> k, at |-> b,
                  before |-> FactsOf(p, k), after |-> FactsOf(a, k),
                  unresolved |-> UnresolvedOf(p, k) \cup UnresolvedOf(a, k)]
      BY <2>2, <2>5, <2>6 DEF TransitionAt
    <2>8. /\ ValidChange(t) /\ ValidMaterial({}, t.unresolved)
          /\ \A u \in t.unresolved : u.key = k
          /\ Cites(t) # {} /\ \A i \in Cites(t) : IdOf(C, k, i)
      BY <2>7, TransitionIsValid
    <2> QED
      BY <2>2, <2>3, <2>4, <2>8
  <1>4. \A t, u \in T : t.key = u.key /\ t.at = u.at => t = u
    BY <1>3
  <1> QED
    BY <1>3, <1>4

LEMMA KeysAreFinite ==
  ASSUME NEW C, IsFiniteSet(C)
  PROVE  IsFiniteSet(KeysOf(C))
  <1>1. PICK g : g = [c \in C |-> c.key]
    OBVIOUS
  <1>2. {g[c] : c \in C} = KeysOf(C)
    BY <1>1 DEF KeysOf
  <1>3. IsFiniteSet({g[c] : c \in C})
    BY FiniteImage
  <1> QED
    BY <1>2, <1>3

LEMMA TrajectoryIsFinite ==
  ASSUME NEW sel, Selection(sel), sel.kind = "window", NEW cutoff, NEW C, Legal(C),
         NEW T, T = Trajectory(sel, cutoff, C)
  PROVE  IsFiniteSet(T)
  <1>1. PICK D : D = sel.start..(sel.end - 1)
    OBVIOUS
  <1>2. IsFiniteSet(D)
    <2>1. sel.start \in Int /\ sel.end - 1 \in Int
      BY DEF Selection
    <2> QED
      BY <1>1, <2>1, FS_Interval
  <1>3. IsFiniteSet(KeysOf(C))
    BY KeysAreFinite DEF Legal
  <1>4. IsFiniteSet(KeysOf(C) \X D)
    BY <1>2, <1>3, FS_Product
  <1>5. /\ \A t, u \in T : t.key = u.key /\ t.at = u.at => t = u
        /\ \A t \in T : t.at \in D /\ Cites(t) # {} /\ \A i \in Cites(t) : IdOf(C, t.key, i)
    BY <1>1, TrajectoryIsValid
  <1>6. \A t \in T : t.key \in KeysOf(C)
    BY <1>5 DEF IdOf, KeysOf
  <1>7. PICK g : g = [t \in T |-> <<t.key, t.at>>]
    OBVIOUS
  <1>8. g \in Injection(T, KeysOf(C) \X D)
    BY <1>5, <1>6, <1>7 DEF Injection, IsInjective
  <1> QED
    BY <1>4, <1>8, FS_Injection

-----------------------------------------------------------------------------
(* The order of a chronology.                                              *)

\* The observations that an entry cites rank it.
LEMMA CitedAreRanked ==
  ASSUME NEW C, Legal(C), NEW ids, ids # {}, \A i \in ids : \E c \in C : c.id = i
  PROVE  FirstRecorded(C, ids) \in Nat /\ Min(ids) \in ids /\ Min(ids) \in Nat
  <1>1. ids \subseteq Nat
    BY DEF Legal
  <1>2. Min(ids) \in ids
    BY <1>1, MinIsLeast
  <1>3. PICK R : R = {c.recorded : c \in {c \in C : c.id \in ids}}
    OBVIOUS
  <1>4. R \subseteq Nat /\ R # {}
    BY <1>3 DEF Legal
  <1>5. Min(R) \in R
    BY <1>4, MinIsLeast
  <1> QED
    BY <1>1, <1>2, <1>3, <1>4, <1>5 DEF FirstRecorded

LEMMA TransitionsAreOrdered ==
  ASSUME NEW sel, Selection(sel), sel.kind = "window", NEW cutoff, NEW C, Legal(C),
         NEW T, T = Trajectory(sel, cutoff, C), NEW o, o = OrderTransitions(T, C)
  PROVE  /\ Len(o) \in Nat
         /\ \A i \in DOMAIN o : o[i] \in T
         /\ \A t \in T : \E i \in DOMAIN o : o[i] = t
         /\ \A i, j \in DOMAIN o : o[i] = o[j] => i = j
         /\ \A i, j \in DOMAIN o : i < j => o[i].at <= o[j].at
  <1>1. IsFiniteSet(T)
    BY TrajectoryIsFinite
  <1>2. /\ \A t, u \in T : t.key = u.key /\ t.at = u.at => t = u
        /\ \A t \in T : /\ t.at \in sel.start..(sel.end - 1)
                        /\ Cites(t) # {} /\ \A i \in Cites(t) : IdOf(C, t.key, i)
    BY TrajectoryIsValid
  <1>3. PICK rank : rank = [t \in T |-> <<t.at, FirstRecorded(C, Cites(t)), Min(Cites(t))>>]
    OBVIOUS
  <1>4. o = Chronological(T, rank)
    BY <1>3 DEF OrderTransitions
  <1>5. ASSUME NEW t \in T
        PROVE  /\ IsRank(rank[t]) /\ rank[t][1] = t.at /\ rank[t][3] = Min(Cites(t))
               /\ Min(Cites(t)) \in Cites(t)
    <2>1. PICK ids : ids = Cites(t)
      OBVIOUS
    <2>2. ids # {} /\ \A i \in ids : \E c \in C : c.id = i
      BY <1>2, <2>1 DEF IdOf
    <2>3. FirstRecorded(C, ids) \in Nat /\ Min(ids) \in ids /\ Min(ids) \in Nat
      BY <2>2, CitedAreRanked
    <2>4. t.at \in Nat
      BY <1>2, BoundariesAre
    <2>5. rank[t] = <<t.at, FirstRecorded(C, ids), Min(ids)>>
      BY <1>3, <2>1
    <2> QED
      BY <2>1, <2>3, <2>4, <2>5 DEF IsRank
  <1>6. ASSUME NEW t \in T, NEW u \in T, rank[t][1] = rank[u][1], rank[t][3] = rank[u][3]
        PROVE  t = u
    <2>1. PICK i : i \in Cites(t) /\ i \in Cites(u)
      BY <1>5, <1>6
    <2>2. IdOf(C, t.key, i) /\ IdOf(C, u.key, i)
      BY <1>2, <2>1
    <2>3. t.key = u.key
      BY <2>2 DEF IdOf, Legal
    <2> QED
      BY <1>2, <1>5, <1>6, <2>3
  <1>7. /\ Len(o) \in Nat
        /\ \A i \in DOMAIN o : o[i] \in T
        /\ \A s \in T : \E i \in DOMAIN o : o[i] = s
        /\ \A i, j \in DOMAIN o : o[i] = o[j] => i = j
        /\ \A i, j \in DOMAIN o : i < j => rank[o[i]][1] <= rank[o[j]][1]
    BY <1>1, <1>4, <1>5, <1>6, ChronologicalOrders
  <1> QED
    BY <1>5, <1>7

-----------------------------------------------------------------------------
(* Between two boundaries nothing changes.                                 *)

LEMMA NextBoundIs ==
  ASSUME NEW B, B \subseteq Nat, NEW b \in Nat, NEW e \in B, b < e
  PROVE  /\ NextBound(B, b) \in B /\ NextBound(B, b) > b
         /\ \A m \in B : m > b => NextBound(B, b) <= m
  <1>1. PICK D : D = {m \in B : m > b}
    OBVIOUS
  <1>2. D \subseteq Nat /\ D # {}
    BY <1>1
  <1>3. PICK n \in D : \A m \in D : n <= m
    BY <1>2, LeastOf
  <1>4. n \in B /\ n > b /\ \A m \in B : m > b => n <= m
    BY <1>1, <1>3
  <1> QED
    BY <1>4 DEF NextBound

LEMMA PreviousBoundIs ==
  ASSUME NEW B, B \subseteq Nat, NEW b \in Nat, NEW s \in B, s < b
  PROVE  /\ PreviousBound(B, b) \in B /\ PreviousBound(B, b) < b
         /\ \A m \in B : m < b => m <= PreviousBound(B, b)
  <1>1. PICK D : D = {b - m : m \in {m \in B : m < b}}
    OBVIOUS
  <1>2. D \subseteq Nat /\ D # {}
    BY <1>1
  <1>3. PICK d \in D : \A x \in D : d <= x
    BY <1>2, LeastOf
  <1>4. PICK p \in B : p < b /\ d = b - p
    BY <1>1, <1>3
  <1>5. ASSUME NEW m \in B, m < b
        PROVE  m <= p
    <2>1. b - m \in D
      BY <1>1, <1>5
    <2>2. b - p <= b - m
      BY <1>3, <1>4, <2>1
    <2> QED
      BY <2>2
  <1>6. p \in B /\ p < b /\ \A m \in B : m < b => m <= p
    BY <1>4, <1>5
  <1> QED
    BY <1>6 DEF PreviousBound

\* The boundary that follows the one before a boundary is that boundary.
LEMMA NextOfPrevious ==
  ASSUME NEW B, B \subseteq Nat, NEW b \in B, NEW s \in B, s < b
  PROVE  NextBound(B, PreviousBound(B, b)) = b
  <1>1. PICK p : p = PreviousBound(B, b)
    OBVIOUS
  <1>2. p \in B /\ p \in Nat /\ p < b /\ \A m \in B : m < b => m <= p
    BY <1>1, PreviousBoundIs
  <1>3. PICK n : n = NextBound(B, p)
    OBVIOUS
  <1>4. n \in B /\ n > p /\ \A m \in B : m > p => n <= m
    BY <1>2, <1>3, NextBoundIs
  <1>5. n <= b /\ ~(n < b)
    BY <1>2, <1>4
  <1> QED
    BY <1>1, <1>3, <1>4, <1>5

\* Each point of the window is in one partition.
LEMMA BoundBelow ==
  ASSUME NEW B, B \subseteq Nat, NEW s \in B, NEW e \in B, NEW t \in s..(e - 1)
  PROVE  \E b \in B : b \in s..t /\ t \in b..(NextBound(B, b) - 1)
  <1>1. s \in Nat /\ e \in Nat /\ t \in Nat /\ s <= t /\ t < e
    OBVIOUS
  <1>2. PICK u : u = t + 1 /\ u \in Nat /\ s < u
    BY <1>1
  <1>3. PICK b \in B : b < u /\ \A m \in B : m < u => m <= b
    BY <1>2, PreviousBoundIs
  <1>4. b \in Nat /\ s <= b /\ b <= t /\ b < e
    BY <1>1, <1>2, <1>3
  <1>5. PICK n : n = NextBound(B, b)
    OBVIOUS
  <1>6. n \in B /\ n > b
    BY <1>4, <1>5, NextBoundIs
  <1>7. n \in Nat /\ t < n
    BY <1>1, <1>2, <1>3, <1>4, <1>6
  <1>8. b \in s..t /\ t \in b..(n - 1)
    BY <1>1, <1>4, <1>7
  <1> QED
    BY <1>3, <1>5, <1>8

NoInstants(C) == \A c \in C : c.extent.kind # "instant"

LEMMA PartitionIsPoint ==
  ASSUME NEW sel, Selection(sel), sel.kind = "window", NEW cutoff, NEW C, Legal(C), NoInstants(C),
         NEW B, B = Boundaries(sel, cutoff, C), NEW b \in B, b # sel.end,
         NEW t \in b..(NextBound(B, b) - 1)
  PROVE  Material(Between(b, NextBound(B, b)), cutoff, C) = Material(At(t), cutoff, C)
  <1>1. PICK s, e : s = sel.start /\ e = sel.end /\ s \in Nat \ {0} /\ e \in Nat /\ s < e
    BY DEF Selection
  <1>2. B \subseteq Nat /\ e \in B /\ b \in Nat /\ s <= b /\ b < e
    BY <1>1, BoundariesAre
  <1>3. PICK n : n = NextBound(B, b)
    OBVIOUS
  <1>4. n \in B /\ n \in Nat /\ n > b /\ \A m \in B : m > b => n <= m
    BY <1>2, <1>3, NextBoundIs
  <1>5. n <= e /\ t \in Nat /\ b <= t /\ t < n
    BY <1>2, <1>3, <1>4
  <1>6. ASSUME NEW c \in C, InScope(cutoff, c.recorded), c.status # "rejected"
        PROVE  Touches(Between(b, n), c.extent) <=> Touches(At(t), c.extent)
    <2>1. PICK x : x = c.extent
      OBVIOUS
    <2>2. x.kind # "instant" /\ x.start \in Nat /\ x.end \in Nat
      BY <2>1 DEF NoInstants, Legal, Extents
    <2>3. Touches(Between(b, n), x) <=> (x.start = 0 \/ x.start < n) /\ (x.end = 0 \/ x.end > b)
      BY <2>2 DEF Touches, Between, StartsBefore, EndsAfter, NoBound
    <2>4. Touches(At(t), x) <=> (x.start = 0 \/ x.start <= t) /\ (x.end = 0 \/ x.end > t)
      BY <2>2 DEF Touches, At, Covers, StartsBy, EndsAfter, NoBound
    <2>5. x.start >= s /\ x.start < e => x.start \in B
      BY <1>1, <1>6, <2>1 DEF Boundaries
    <2>6. x.end > s /\ x.end < e => x.end \in B
      BY <1>1, <1>6, <2>1 DEF Boundaries
    <2>7. x.start < n => x.start <= t
      BY <1>1, <1>2, <1>4, <1>5, <2>2, <2>5
    <2>8. x.end > b => x.end > t
      BY <1>1, <1>2, <1>4, <1>5, <2>2, <2>6
    <2> QED
      BY <1>2, <1>4, <1>5, <2>1, <2>2, <2>3, <2>4, <2>7, <2>8
  <1> QED
    BY <1>3, <1>6 DEF Material

LEMMA BeforeIsPoint ==
  ASSUME NEW s \in Nat \ {0}, NEW cutoff, NEW C, Legal(C), NoInstants(C)
  PROVE  Material(JustBefore(s), cutoff, C) = Material(At(s - 1), cutoff, C)
  <1>1. ASSUME NEW c \in C
        PROVE  Touches(JustBefore(s), c.extent) <=> Touches(At(s - 1), c.extent)
    <2>1. PICK x : x = c.extent
      OBVIOUS
    <2>2. x.kind # "instant" /\ x.start \in Nat /\ x.end \in Nat
      BY <2>1 DEF NoInstants, Legal, Extents
    <2>3. Touches(JustBefore(s), x) <=> (x.start = 0 \/ x.start < s) /\ (x.end = 0 \/ x.end >= s)
      BY <2>2 DEF Touches, JustBefore, StartsBefore, EndsFrom, NoBound
    <2>4. Touches(At(s - 1), x) <=>
                      (x.start = 0 \/ x.start <= s - 1) /\ (x.end = 0 \/ x.end > s - 1)
      BY <2>2 DEF Touches, At, Covers, StartsBy, EndsAfter, NoBound
    <2> QED
      BY <2>1, <2>2, <2>3, <2>4
  <1> QED
    BY <1>1 DEF Material

LEMMA SameMaterial ==
  ASSUME NEW x, NEW y, NEW cutoff, NEW C, Material(x, cutoff, C) = Material(y, cutoff, C)
  PROVE  Summary(x, cutoff, C) = Summary(y, cutoff, C)
  BY DEF Summary

LEMMA StateFromAt ==
  ASSUME NEW sel, Selection(sel), sel.kind = "window", NEW cutoff, NEW C, Legal(C), NoInstants(C),
         NEW b \in Boundaries(sel, cutoff, C), b # sel.end,
         NEW t \in b..(NextBound(Boundaries(sel, cutoff, C), b) - 1)
  PROVE  StateFrom(sel, cutoff, C, b) = Summary(At(t), cutoff, C)
  <1>1. PICK B : B = Boundaries(sel, cutoff, C)
    OBVIOUS
  <1>2. StateFrom(sel, cutoff, C, b) = Summary(Between(b, NextBound(B, b)), cutoff, C)
    BY <1>1 DEF StateFrom, Partition
  <1>3. Material(Between(b, NextBound(B, b)), cutoff, C) = Material(At(t), cutoff, C)
    BY <1>1, PartitionIsPoint
  <1> QED
    BY <1>2, <1>3, SameMaterial

LEMMA StateBeforeAt ==
  ASSUME NEW sel, Selection(sel), sel.kind = "window", NEW cutoff, NEW C, Legal(C), NoInstants(C),
         NEW b \in Boundaries(sel, cutoff, C)
  PROVE  StateBefore(sel, cutoff, C, b) = Summary(At(b - 1), cutoff, C)
  <1>1. PICK B : B = Boundaries(sel, cutoff, C)
    OBVIOUS
  <1>2. PICK s, e : s = sel.start /\ e = sel.end /\ s \in Nat \ {0} /\ e \in Nat /\ s < e
    BY DEF Selection
  <1>3. B \subseteq Nat /\ s \in B /\ b \in B /\ s <= b /\ b <= e
    BY <1>1, <1>2, BoundariesAre
  <1>4. CASE b = s
    <2>1. Material(JustBefore(s), cutoff, C) = Material(At(s - 1), cutoff, C)
      BY <1>2, BeforeIsPoint
    <2>2. Summary(JustBefore(s), cutoff, C) = Summary(At(s - 1), cutoff, C)
      BY <2>1, SameMaterial
    <2> QED
      BY <1>2, <1>4, <2>2 DEF StateBefore
  <1>5. CASE b # s
    <2>1. PICK p : p = PreviousBound(B, b)
      OBVIOUS
    <2>2. s < b /\ s \in Nat /\ b \in Nat
      BY <1>2, <1>3, <1>5
    <2>3. p \in B /\ p < b /\ p \in Nat
      BY <1>3, <2>1, <2>2, PreviousBoundIs
    <2>4. NextBound(B, p) = b
      BY <1>3, <2>1, <2>2, NextOfPrevious
    <2>5. StateBefore(sel, cutoff, C, b) = StateFrom(sel, cutoff, C, p)
      BY <1>1, <1>2, <1>5, <2>1 DEF StateBefore, StateFrom
    <2>6. p # sel.end /\ b - 1 \in p..(NextBound(B, p) - 1)
      BY <1>2, <1>3, <2>2, <2>3, <2>4
    <2>7. StateFrom(sel, cutoff, C, p) = Summary(At(b - 1), cutoff, C)
      BY <1>1, <2>3, <2>6, StateFromAt
    <2> QED
      BY <2>5, <2>7
  <1> QED
    BY <1>4, <1>5

\* Away from the boundaries a point has the state of the point before it.
LEMMA NoChangeWithin ==
  ASSUME NEW sel, Selection(sel), sel.kind = "window", NEW cutoff, NEW C, Legal(C), NoInstants(C),
         NEW t \in sel.start..(sel.end - 1), t \notin Boundaries(sel, cutoff, C)
  PROVE  Summary(At(t - 1), cutoff, C) = Summary(At(t), cutoff, C)
  <1>1. PICK B : B = Boundaries(sel, cutoff, C)
    OBVIOUS
  <1>2. PICK s, e : s = sel.start /\ e = sel.end /\ s \in Nat \ {0} /\ e \in Nat /\ s < e
    BY DEF Selection
  <1>3. B \subseteq Nat /\ s \in B /\ e \in B
    BY <1>1, <1>2, BoundariesAre
  <1>4. PICK b \in B : b \in s..t /\ t \in b..(NextBound(B, b) - 1)
    BY <1>2, <1>3, BoundBelow
  <1>5. PICK n : n = NextBound(B, b)
    OBVIOUS
  <1>6. b \in Nat /\ b < e /\ t \in Nat
    BY <1>2, <1>4
  <1>7. n \in Nat
    BY <1>3, <1>5, <1>6, NextBoundIs
  <1>8. b # sel.end /\ t - 1 \in b..(n - 1) /\ t \in b..(n - 1)
    BY <1>1, <1>2, <1>4, <1>5, <1>6, <1>7
  <1>9. StateFrom(sel, cutoff, C, b) = Summary(At(t), cutoff, C)
    BY <1>1, <1>5, <1>8, StateFromAt
  <1>10. StateFrom(sel, cutoff, C, b) = Summary(At(t - 1), cutoff, C)
    BY <1>1, <1>5, <1>8, StateFromAt
  <1> QED
    BY <1>9, <1>10

-----------------------------------------------------------------------------
(* What the store holds, and the snapshot a query reads from it.           *)

StoreInv ==
  /\ recorded \subseteq Observed /\ IsFiniteSet(recorded)
  /\ \A r, s \in recorded : r.id = s.id => r = s

LEMMA ReadIsLegal ==
  ASSUME StoreInv, NEW q, NEW C, C = Read(q).candidates
  PROVE  /\ Legal(C)
         /\ \A c \in C : /\ InScope(q.cutoff, c.recorded)
                         /\ q.predicates # {} => c.key.predicate \in q.predicates
  <1>1. PICK R : R = {r \in recorded : /\ InScope(q.cutoff, r.recorded)
                                       /\ NamedEntities(r) \cap q.entities # {}
                                       /\ Exclusion(q, r) = "retained"}
    OBVIOUS
  <1>2. C = {Candidate(r) : r \in R}
    BY <1>1 DEF Read
  <1>3. R \in SUBSET recorded
    BY <1>1
  <1>4. IsFiniteSet(R)
    BY <1>3, FS_Subset DEF StoreInv
  <1>5. PICK g : g = [r \in R |-> Candidate(r)]
    OBVIOUS
  <1>6. C = {g[r] : r \in R}
    BY <1>2, <1>5
  <1>7. IsFiniteSet(C)
    BY <1>4, <1>6, FiniteImage
  <1>8. ASSUME NEW r \in R
        PROVE  /\ Row(r) /\ Candidate(r).id = r.id /\ Candidate(r).recorded = r.recorded
               /\ Candidate(r).extent = r.extent /\ Candidate(r).key.predicate = r.predicate
               /\ Candidate(r).supporting = r.supporting
               /\ Candidate(r).contradicting = r.contradicting
    BY <1>3, RowsAssumption DEF StoreInv, Candidate
  <1>9. \A c, d \in C : c.id = d.id => c = d
    BY <1>2, <1>3, <1>8 DEF StoreInv
  <1>10. \A c \in C : /\ c.extent \in Extents /\ c.id \in Nat /\ c.recorded \in Nat
                      /\ c.supporting \cup c.contradicting # {}
    BY <1>2, <1>8 DEF Row
  <1>11. \A r \in R : /\ InScope(q.cutoff, r.recorded)
                      /\ q.predicates # {} => r.predicate \in q.predicates
    BY <1>1 DEF Exclusion
  <1>12. \A c \in C : /\ InScope(q.cutoff, c.recorded)
                      /\ q.predicates # {} => c.key.predicate \in q.predicates
    BY <1>2, <1>8, <1>11
  <1> QED
    BY <1>7, <1>9, <1>10, <1>12 DEF Legal

LEMMA CoverageIsAsked ==
  ASSUME NEW q, NEW v \in Read(q).coverage,
         v.reason \in {"unresolved-mention", "authority-excluded"}
  PROVE  /\ v.entity \in q.entities
         /\ q.predicates # {} => v.predicate \in q.predicates
  <1>1. PICK r \in recorded, e \in q.entities :
          v = [reason |-> Exclusion(q, r), entity |-> e, predicate |-> r.predicate,
               extent |-> r.extent]
    BY DEF Read
  <1> QED
    BY <1>1 DEF Exclusion

-----------------------------------------------------------------------------
(* What an answer is built from.                                           *)

\* An answer is what the intent's operation makes of what the store holds.
QueryInv ==
  /\ StoreInv
  /\ answer.outcome = "answered" =>
       /\ answer.query \in Requests /\ WellFormed(answer.query)
       /\ answer.result = Execute(answer.query, Read(answer.query))

LEMMA QueryInvHolds == QuerySpec => []QueryInv
  <1>1. QueryInit => QueryInv
    BY FS_EmptySet DEF QueryInit, QueryInv, StoreInv, Unanswered
  <1>2. ASSUME QueryInv, [QueryNext]_queryVars
        PROVE  QueryInv'
    <2>1. CASE UNCHANGED queryVars
      <3>1. recorded' = recorded /\ answer' = answer
        BY <2>1 DEF queryVars
      <3>2. \A q : Read(q)' = Read(q)
        BY <3>1 DEF Read
      <3> QED
        BY <1>2, <3>1, <3>2 DEF QueryInv, StoreInv
    <2>2. ASSUME NEW r \in Observed, Record(r)
          PROVE  QueryInv'
      <3>1. answer'.outcome = "none"
        BY <2>2 DEF Record, Unanswered
      <3>2. recorded' = recorded \cup {r} /\ \A s \in recorded : s.id # r.id
        BY <2>2 DEF Record
      <3>3. /\ recorded \subseteq Observed /\ IsFiniteSet(recorded)
            /\ \A s, t \in recorded : s.id = t.id => s = t
        BY <1>2 DEF QueryInv, StoreInv
      <3>4. IsFiniteSet(recorded')
        BY <3>2, <3>3, FS_AddElement
      <3>5. \A s, t \in recorded' : s.id = t.id => s = t
        BY <3>2, <3>3
      <3> QED
        BY <3>1, <3>2, <3>3, <3>4, <3>5 DEF QueryInv, StoreInv
    <2>3. ASSUME NEW q \in Requests, Refuse(q) \/ NotFound(q)
          PROVE  QueryInv'
      BY <1>2, <2>3 DEF QueryInv, StoreInv, Refuse, NotFound
    <2>4. ASSUME NEW q \in Requests, Answered(q)
          PROVE  QueryInv'
      <3>1. recorded' = recorded
        BY <2>4 DEF Answered
      <3>2. Read(q)' = Read(q)
        BY <3>1 DEF Read
      <3>3. PICK result : result = Execute(q, Read(q))
        OBVIOUS
      <3>4. WellFormed(q) /\ \/ answer' = [outcome |-> "limit-exceeded", query |-> q]
                             \/ answer' = [outcome |-> "invalid", query |-> q]
                             \/ answer' = [outcome |-> "answered", query |-> q, result |-> result]
        BY <2>4, <3>3 DEF Answered
      <3> QED
        BY <1>2, <3>1, <3>2, <3>3, <3>4 DEF QueryInv, StoreInv
    <2> QED
      BY <1>2, <2>1, <2>2, <2>3, <2>4 DEF QueryNext
  <1> QED
    BY <1>1, <1>2, PTL DEF QuerySpec

\* What the answers about windows report as unresolved is what the summary of
\* the window leaves unresolved.
LEMMA ReportedIsSummary ==
  ASSUME QueryInv, IsAnswer({"trend-comparison", "trajectory"}), NEW w \in Reported
  PROVE  /\ Selection(w[1]) /\ w[1].kind = "window"
         /\ w[3] = Summary(w[1], Asked.cutoff, Candidates).unresolved
  <1>1. PICK q : q = Asked
    OBVIOUS
  <1>2. PICK S : S = Read(q)
    OBVIOUS
  <1>3. PICK p : p = answer.result.payload
    OBVIOUS
  <1>4. /\ q \in Requests /\ WellFormed(q) /\ p = Execute(q, S).payload
        /\ q.intent \in {"trend-comparison", "trajectory"} /\ Candidates = S.candidates
    BY <1>1, <1>2, <1>3 DEF QueryInv, IsAnswer, Asked, Candidates
  <1>5. \A i \in DOMAIN q.selections :
          Selection(q.selections[i]) /\ q.selections[i].kind = "window"
    BY <1>4, RequestsAssumption DEF WellFormed, WellSelected
  <1>6. CASE q.intent = "trend-comparison"
    <2>1. 1 \in DOMAIN q.selections /\ 2 \in DOMAIN q.selections
      BY <1>4, <1>6, RequestsAssumption DEF WellFormed, WellSelected
    <2>2. PICK b : b = Summary(q.selections[1], q.cutoff, S.candidates)
      OBVIOUS
    <2>3. PICK a : a = Summary(q.selections[2], q.cutoff, S.candidates)
      OBVIOUS
    <2>4. p.before = b /\ p.after = a
      BY <1>4, <1>6, <2>2, <2>3 DEF Execute, ExecuteTrend, TrendPayload
    <2>5. w \in {<<q.selections[1], p.before.facts, p.before.unresolved>>,
                 <<q.selections[2], p.after.facts, p.after.unresolved>>}
      BY <1>1, <1>3, <1>6 DEF Reported
    <2>6. \/ w[1] = q.selections[1] /\ w[3] = b.unresolved
          \/ w[1] = q.selections[2] /\ w[3] = a.unresolved
      BY <2>4, <2>5
    <2> QED
      BY <1>1, <1>4, <1>5, <2>1, <2>2, <2>3, <2>6
  <1>7. CASE q.intent = "trajectory"
    <2>1. 1 \in DOMAIN q.selections
      BY <1>4, <1>7, RequestsAssumption DEF WellFormed, WellSelected
    <2>2. PICK s : s = Summary(q.selections[1], q.cutoff, S.candidates)
      OBVIOUS
    <2>3. p.unresolved = s.unresolved
      BY <1>4, <1>7, <2>2 DEF Execute, ExecuteTrajectory, TrajectoryPayload
    <2>4. \E x : w = <<q.selections[1], x, p.unresolved>>
      BY <1>1, <1>3, <1>7 DEF Reported
    <2>5. w[1] = q.selections[1] /\ w[3] = s.unresolved
      BY <2>3, <2>4
    <2> QED
      BY <1>1, <1>4, <1>5, <2>1, <2>2, <2>5
  <1> QED
    BY <1>4, <1>6, <1>7

LEMMA CandidatesAreLegal ==
  ASSUME QueryInv
  PROVE  Legal(Candidates)
  BY ReadIsLegal DEF QueryInv, Candidates

\* A window's conflict is a conflict at one of its instants, and states that
\* only follow one another are not called one, whatever is recorded and asked
\* (unresolvedReason, supportedValuesOverlap).
THEOREM ConflictsStayInstants == QuerySpec => []ConflictsAreAtOneInstant
  <1>1. QueryInv => ConflictsAreAtOneInstant
    <2> SUFFICES ASSUME QueryInv, IsAnswer({"trend-comparison", "trajectory"}),
                        NEW w \in Reported, NEW u \in w[3],
                        u.reason \in {"conflicting-values", "multiple-states-in-window"}
                 PROVE  u.reason = "conflicting-values" <=>
                          \E t \in w[1].start..(w[1].end - 1) :
                            Cardinality(Values(Supported(OfKey(
                              Material(At(t), Asked.cutoff, Candidates), u.key)))) > 1
      BY DEF ConflictsAreAtOneInstant
    <2>1. PICK sel : sel = w[1]
      OBVIOUS
    <2>2. PICK C : C = Candidates
      OBVIOUS
    <2>3. PICK cutoff : cutoff = Asked.cutoff
      OBVIOUS
    <2>4. PICK k : k = u.key
      OBVIOUS
    <2>5. Selection(sel) /\ sel.kind = "window" /\ u \in Summary(sel, cutoff, C).unresolved
      BY <2>1, <2>2, <2>3, ReportedIsSummary
    <2>6. IsFiniteSet(C) /\ \A c \in C : c.extent \in Extents
      BY <2>2, CandidatesAreLegal DEF Legal
    <2>7. u.reason = UnresolvedReason(OfKey(Material(sel, cutoff, C), k))
      <3>1. u = Unresolved(k, OfKey(Material(sel, cutoff, C), k))
        BY <2>4, <2>5, UnresolvedIsContested
      <3> QED
        BY <3>1 DEF Unresolved
    <2>8. u.reason = "conflicting-values" <=> Conflicting(OfKey(Material(sel, cutoff, C), k))
      BY <2>7 DEF UnresolvedReason
    <2>9. ASSUME NEW t
          PROVE  Cardinality(Values(Supported(OfKey(Material(At(t), cutoff, C), k)))) > 1 <=>
                   \E c, d \in Supported(OfKey(Material(At(t), cutoff, C), k)) : c.value # d.value
      <3>1. PICK G : G = Supported(OfKey(Material(At(t), cutoff, C), k))
        OBVIOUS
      <3>2. G \in SUBSET C
        BY <3>1, SupportedTouch
      <3>3. IsFiniteSet(G)
        BY <2>6, <3>2, FS_Subset
      <3> QED
        BY <3>1, <3>3, Several
    <2>10. Conflicting(OfKey(Material(sel, cutoff, C), k)) <=>
             \E t \in sel.start..(sel.end - 1) :
               \E c, d \in Supported(OfKey(Material(At(t), cutoff, C), k)) : c.value # d.value
      BY <2>5, <2>6, ConflictHasInstant
    <2> QED
      BY <2>1, <2>2, <2>3, <2>4, <2>8, <2>9, <2>10
  <1> QED
    BY <1>1, QueryInvHolds, PTL

-----------------------------------------------------------------------------
(* The gaps are about what was asked.                                      *)

LEMMA StateGapsAreValid ==
  ASSUME StoreInv, NEW q, NEW S, S = Read(q), NEW summaries, NEW within,
         DOMAIN summaries \subseteq DOMAIN q.selections,
         NEW g \in StateGaps(q, S, summaries, within)
  PROVE  ValidGap(q, g)
  <1>1. \A c \in S.candidates : q.predicates # {} => c.key.predicate \in q.predicates
    BY ReadIsLegal
  <1>2. \A kind, e, p, label : /\ Gap(kind, e, p, label).kind = kind
                               /\ Gap(kind, e, p, label).entity = e
                               /\ Gap(kind, e, p, label).predicate = p
                               /\ Gap(kind, e, p, label).label = label
    BY DEF Gap
  <1>3. \/ \E v \in S.coverage : /\ v.reason \in {"unresolved-mention", "authority-excluded"}
                                 /\ g = Gap(v.reason, v.entity, v.predicate, None)
        \/ \E i \in DOMAIN summaries : g \in ValidTimeGaps(q, S.candidates, q.selections[i])
        \/ \E e \in q.entities : g = Gap("no-evidence", e, None, None)
    BY DEF StateGaps, CoverageGaps
  <1>4. ASSUME NEW v \in S.coverage, v.reason \in {"unresolved-mention", "authority-excluded"},
               g = Gap(v.reason, v.entity, v.predicate, None)
        PROVE  ValidGap(q, g)
    <2>1. v.entity \in q.entities /\ (q.predicates # {} => v.predicate \in q.predicates)
      BY <1>4, CoverageIsAsked
    <2> QED
      BY <1>2, <1>4, <2>1 DEF ValidGap
  <1>5. ASSUME NEW i \in DOMAIN summaries, g \in ValidTimeGaps(q, S.candidates, q.selections[i])
        PROVE  ValidGap(q, g)
    <2>1. PICK c \in S.candidates, e \in q.entities \cup {None} :
            g = Gap("valid-time-excluded", e, c.key.predicate, q.selections[i].label)
      BY <1>5 DEF ValidTimeGaps
    <2>2. i \in DOMAIN q.selections
      OBVIOUS
    <2> QED
      BY <1>1, <1>2, <2>1, <2>2 DEF ValidGap
  <1>6. ASSUME NEW e \in q.entities, g = Gap("no-evidence", e, None, None)
        PROVE  ValidGap(q, g)
    BY <1>2, <1>6 DEF ValidGap
  <1> QED
    BY <1>3, <1>4, <1>5, <1>6

-----------------------------------------------------------------------------
(* What the service validates of each intent's payload.                    *)

LEMMA TrendIsValid ==
  ASSUME NEW C, Legal(C), NEW cutoff, NEW x, NEW y, NEW b, NEW a,
         b = Summary(x, cutoff, C), a = Summary(y, cutoff, C), NEW p, p = TrendPayload(b, a)
  PROVE  ValidTrend(p)
  <1>1. /\ p.before = b /\ p.after = a /\ p.changes = Changes(b, a)
        /\ p.unresolvedKeys = UnresolvedKeys(b) \cup UnresolvedKeys(a)
    BY DEF TrendPayload
  <1>2. ValidMaterial(b.facts, b.unresolved) /\ ValidMaterial(a.facts, a.unresolved)
    BY SummaryIsValid
  <1>3. PICK keys : keys = (FactKeys(b) \cup FactKeys(a)) \
                              (UnresolvedKeys(b) \cup UnresolvedKeys(a))
    OBVIOUS
  <1>4. PICK change : change =
          [k \in keys |-> [kind |-> ChangeKind(FactsOf(b, k), FactsOf(a, k)), key |-> k,
                           before |-> FactsOf(b, k), after |-> FactsOf(a, k)]]
    OBVIOUS
  <1>5. \A c : c \in p.changes <=> \E k \in keys : /\ Differ(FactsOf(b, k), FactsOf(a, k))
                                                   /\ c = change[k]
    BY <1>1, <1>3, <1>4 DEF Changes
  <1>6. \A k \in keys : /\ change[k].kind = ChangeKind(FactsOf(b, k), FactsOf(a, k))
                        /\ change[k].key = k /\ change[k].before = FactsOf(b, k)
                        /\ change[k].after = FactsOf(a, k)
    BY <1>4
  <1>7. ASSUME NEW c \in p.changes
        PROVE  /\ ValidChange(c) /\ c = change[c.key] /\ c.key \in keys
               /\ Differ(FactsOf(b, c.key), FactsOf(a, c.key))
               /\ c.before = FactsOf(b, c.key) /\ c.after = FactsOf(a, c.key)
    <2>1. PICK k \in keys : Differ(FactsOf(b, k), FactsOf(a, k)) /\ c = change[k]
      BY <1>5, <1>7
    <2>2. PICK fb, fa : fb = FactsOf(b, k) /\ fa = FactsOf(a, k)
      OBVIOUS
    <2>3. c.kind = ChangeKind(fb, fa) /\ c.key = k /\ c.before = fb /\ c.after = fa
      BY <1>6, <2>1, <2>2
    <2>4. (\A f, g \in fb : f = g) /\ \A f \in fb : f.key = k /\ ValidFact(f)
      BY <2>2, OneFact
    <2>5. (\A f, g \in fa : f = g) /\ \A f \in fa : f.key = k /\ ValidFact(f)
      BY <2>2, OneFact
    <2>6. ValidChange(c)
      BY <2>1, <2>2, <2>3, <2>4, <2>5, ChangeIsValid
    <2> QED
      BY <2>1, <2>2, <2>3, <2>6
  <1>8. \A c, d \in p.changes : c.key = d.key => c = d
    BY <1>7
  <1>9. {c.key : c \in p.changes} = {k \in keys : Differ(FactsOf(b, k), FactsOf(a, k))}
    <2>1. \A c \in p.changes : c.key \in keys /\ Differ(FactsOf(b, c.key), FactsOf(a, c.key))
      BY <1>7
    <2>2. \A k \in keys : Differ(FactsOf(b, k), FactsOf(a, k)) => \E c \in p.changes : c.key = k
      BY <1>5, <1>6
    <2> QED
      BY <2>1, <2>2
  <1> QED
    BY <1>1, <1>2, <1>3, <1>7, <1>8, <1>9 DEF ValidTrend

LEMMA TrajectoryPayloadIsValid ==
  ASSUME NEW q, NEW sel, sel = q.selections[1], Selection(sel), sel.kind = "window",
         NEW cutoff, NEW C, Legal(C), NEW T, T = Trajectory(sel, cutoff, C),
         NEW s, s = Summary(sel, cutoff, C), NEW p, p = TrajectoryPayload(T, s, C),
         Len(p.transitions) <= q.limit
  PROVE  ValidTrajectory(q, p)
  <1>1. PICK o : o = OrderTransitions(T, C)
    OBVIOUS
  <1>2. p.transitions = o /\ p.unresolved = s.unresolved
    BY <1>1 DEF TrajectoryPayload
  <1>3. ValidMaterial({}, s.unresolved)
    BY SummaryIsValid
  <1>4. /\ \A i \in DOMAIN o : o[i] \in T
        /\ \A i, j \in DOMAIN o : o[i] = o[j] => i = j
    BY <1>1, TransitionsAreOrdered
  <1>5. /\ \A t, u \in T : t.key = u.key /\ t.at = u.at => t = u
        /\ \A t \in T : /\ ValidChange(t) /\ ValidMaterial({}, t.unresolved)
                        /\ \A u \in t.unresolved : u.key = t.key
                        /\ t.at \in sel.start..(sel.end - 1)
    BY TrajectoryIsValid
  <1>6. \A at \in sel.start..(sel.end - 1) : at >= sel.start /\ at < sel.end
    BY DEF Selection
  <1>7. \A i, j \in DOMAIN o : o[i].key = o[j].key /\ o[i].at = o[j].at => i = j
    BY <1>4, <1>5
  <1>8. \A i \in DOMAIN o : /\ ValidChange(o[i]) /\ ValidMaterial({}, o[i].unresolved)
                            /\ \A u \in o[i].unresolved : u.key = o[i].key
                            /\ o[i].at >= sel.start /\ o[i].at < sel.end
    BY <1>4, <1>5, <1>6
  <1> QED
    BY <1>2, <1>3, <1>7, <1>8 DEF ValidTrajectory

-----------------------------------------------------------------------------
(* Causal chains.                                                          *)

LEMMA LinksAre ==
  ASSUME NEW sel, NEW cutoff, NEW C, Legal(C), NEW L, L = CausalLinks(sel, cutoff, C)
  PROVE  /\ IsFiniteSet(L)
         /\ \A l, m \in L : l.cause = m.cause /\ l.effect = m.effect => l = m
         /\ \A l \in L : /\ ValidFact(l)
                         /\ \A i \in l.ids : \E c \in C : /\ c.id = i /\ c.key.subject = l.cause
                                                          /\ c.value = l.effect
  <1>1. PICK M : M = {c \in C : /\ c.key.predicate = CausalPredicate /\ InScope(cutoff, c.recorded)
                                /\ Touches(sel, c.extent) /\ Certain(c.extent)}
    OBVIOUS
  <1>2. PICK link : link = [c \in M |-> Link(M, c.key.subject, c.value)]
    OBVIOUS
  <1>3. L = {link[c] : c \in M}
    BY <1>1, <1>2 DEF CausalLinks
  <1>4. IsFiniteSet(M) /\ M \subseteq C /\ Evident(M)
    <2>1. M \in SUBSET C
      BY <1>1
    <2> QED
      BY <2>1, FS_Subset DEF Legal, Evident
  <1>5. IsFiniteSet(L)
    BY <1>3, <1>4, FiniteImage
  <1>6. ASSUME NEW d \in M
        PROVE  /\ link[d].cause = d.key.subject /\ link[d].effect = d.value
               /\ ValidFact(link[d])
               /\ \A i \in link[d].ids : \E c \in M : /\ c.id = i /\ c.key.subject = d.key.subject
                                                      /\ c.value = d.value
    <2>1. PICK D : D = {c \in M : c.key.subject = d.key.subject /\ c.value = d.value}
      OBVIOUS
    <2>2. PICK f : f = Fact(d.key, d.value, D)
      OBVIOUS
    <2>3. PICK l : l = link[d]
      OBVIOUS
    <2>4. /\ l.cause = d.key.subject /\ l.effect = d.value /\ l.ids = f.ids
          /\ l.supporting = f.supporting /\ l.contradicting = f.contradicting
      BY <1>2, <2>1, <2>2, <2>3 DEF Link, Fact
    <2>5. D # {} /\ Evident(D)
      BY <1>4, <2>1 DEF Evident
    <2>6. ValidFact(f) /\ \A i : i \in f.ids <=> \E c \in D : c.id = i
      BY <2>2, <2>5, FactIsValid
    <2>7. ValidFact(l)
      BY <2>4, <2>6 DEF ValidFact
    <2> QED
      BY <2>1, <2>3, <2>4, <2>6, <2>7
  <1>7. \A c, d \in M : c.key.subject = d.key.subject /\ c.value = d.value => link[c] = link[d]
    BY <1>2
  <1>8. \A l, m \in L : l.cause = m.cause /\ l.effect = m.effect => l = m
    BY <1>3, <1>6, <1>7
  <1>9. \A l \in L : /\ ValidFact(l)
                     /\ \A i \in l.ids : \E c \in C : /\ c.id = i /\ c.key.subject = l.cause
                                                      /\ c.value = l.effect
    BY <1>3, <1>4, <1>6
  <1> QED
    BY <1>5, <1>8, <1>9

LEMMA LinksAreOrdered ==
  ASSUME NEW sel, NEW cutoff, NEW C, Legal(C), NEW L, L = CausalLinks(sel, cutoff, C),
         NEW o, o = OrderLinks(L, C)
  PROVE  Len(o) \in Nat /\ \A i \in DOMAIN o : o[i] \in L
  <1>1. /\ IsFiniteSet(L)
        /\ \A l, m \in L : l.cause = m.cause /\ l.effect = m.effect => l = m
        /\ \A l \in L : /\ ValidFact(l)
                        /\ \A i \in l.ids : \E c \in C : /\ c.id = i /\ c.key.subject = l.cause
                                                         /\ c.value = l.effect
    BY LinksAre
  <1>2. PICK rank : rank =
          [l \in L |-> <<Min({CausalBound(c.extent) : c \in {c \in C : c.id \in l.ids}}),
                         FirstRecorded(C, l.ids), Min(l.ids)>>]
    OBVIOUS
  <1>3. o = Chronological(L, rank)
    BY <1>2 DEF OrderLinks
  <1>4. ASSUME NEW l \in L
        PROVE  IsRank(rank[l]) /\ rank[l][3] = Min(l.ids) /\ Min(l.ids) \in l.ids
    <2>1. PICK ids : ids = l.ids
      OBVIOUS
    <2>2. ids # {} /\ \A i \in ids : \E c \in C : c.id = i
      BY <1>1, <2>1 DEF ValidFact
    <2>3. FirstRecorded(C, ids) \in Nat /\ Min(ids) \in ids /\ Min(ids) \in Nat
      BY <2>2, CitedAreRanked
    <2>4. PICK D : D = {CausalBound(c.extent) : c \in {c \in C : c.id \in ids}}
      OBVIOUS
    <2>5. D # {}
      BY <2>2, <2>4
    <2>6. \A c \in C : CausalBound(c.extent) \in Nat
      BY DEF Legal, Extents, CausalBound
    <2>7. D \subseteq Nat
      BY <2>4, <2>6
    <2>8. Min(D) \in Nat
      BY <2>5, <2>7, MinIsLeast
    <2>9. rank[l] = <<Min(D), FirstRecorded(C, ids), Min(ids)>>
      BY <1>2, <2>1, <2>4
    <2> QED
      BY <2>1, <2>3, <2>8, <2>9 DEF IsRank
  <1>5. ASSUME NEW l \in L, NEW m \in L, rank[l][3] = rank[m][3]
        PROVE  l = m
    <2>1. PICK i : i \in l.ids /\ i \in m.ids
      BY <1>4, <1>5
    <2>2. l.cause = m.cause /\ l.effect = m.effect
      BY <1>1, <2>1 DEF Legal
    <2> QED
      BY <1>1, <2>2
  <1>6. Len(o) \in Nat /\ \A i \in DOMAIN o : o[i] \in L
    BY <1>1, <1>3, <1>4, <1>5, ChronologicalOrders
  <1> QED
    BY <1>6

-----------------------------------------------------------------------------
(* The service accepts what it built.                                      *)

\* What a well-formed request of the callers says of its selections.
LEMMA AskedSelections ==
  ASSUME NEW q \in Requests, WellFormed(q)
  PROVE  /\ 1 \in DOMAIN q.selections /\ Selection(q.selections[1])
         /\ q.intent = "trend-comparison" => /\ 2 \in DOMAIN q.selections
                                             /\ Selection(q.selections[2])
                                             /\ q.selections[2].kind = "window"
         /\ q.intent # "point-in-time" => q.selections[1].kind = "window"
         /\ q.limit \in Int /\ q.intent \in Intents
  <1>1. q.limit \in Int
    BY LimitsAssumption DEF WellFormed
  <1>2. /\ DOMAIN q.selections = 1..Len(q.selections)
        /\ \A i \in DOMAIN q.selections : Selection(q.selections[i])
    BY RequestsAssumption
  <1>3. /\ Len(q.selections) = IF q.intent = "trend-comparison" THEN 2 ELSE 1
        /\ \A i \in DOMAIN q.selections :
             q.selections[i].kind = IF q.intent = "point-in-time" THEN "point" ELSE "window"
        /\ q.intent \in Intents
    BY DEF WellFormed, WellSelected
  <1>4. 1 \in DOMAIN q.selections
    BY <1>2, <1>3
  <1>5. q.intent = "trend-comparison" => 2 \in DOMAIN q.selections
    BY <1>2, <1>3
  <1> QED
    BY <1>1, <1>2, <1>3, <1>4, <1>5

LEMMA ExecuteIsValid ==
  ASSUME StoreInv, NEW q \in Requests, WellFormed(q), NEW S, S = Read(q),
         NEW result, result = Execute(q, S),
         ~(Chronicles(q) /\ Len(Chronology(q, result)) > q.limit)
  PROVE  ValidResult(q, result)
  <1>1. PICK C : C = S.candidates
    OBVIOUS
  <1>2. Legal(C)
    BY <1>1, ReadIsLegal
  <1>3. PICK sel : sel = q.selections[1]
    OBVIOUS
  <1>4. /\ 1 \in DOMAIN q.selections /\ Selection(sel)
        /\ q.intent = "trend-comparison" => 2 \in DOMAIN q.selections
        /\ q.intent # "point-in-time" => sel.kind = "window"
        /\ q.limit \in Int /\ q.intent \in Intents
    BY <1>3, AskedSelections
  <1>5. PICK s : s = Summary(sel, q.cutoff, C)
    OBVIOUS
  <1>6. CASE q.intent = "point-in-time"
    <2>1. result.payload = s /\ result.gaps = StateGaps(q, S, <<s>>, {sel})
      BY <1>1, <1>3, <1>5, <1>6 DEF Execute, ExecutePoint
    <2>2. ValidMaterial(s.facts, s.unresolved)
      BY <1>2, <1>5, SummaryIsValid
    <2>3. DOMAIN <<s>> \subseteq DOMAIN q.selections
      BY <1>4
    <2>4. \A g \in result.gaps : ValidGap(q, g)
      BY <2>1, <2>3, StateGapsAreValid
    <2> QED
      BY <1>6, <2>1, <2>2, <2>4 DEF ValidResult
  <1>7. CASE q.intent = "trend-comparison"
    <2>1. PICK a : a = Summary(q.selections[2], q.cutoff, C)
      OBVIOUS
    <2>2. result.payload = TrendPayload(s, a) /\ result.gaps = StateGaps(q, S, <<s, a>>, {})
      BY <1>1, <1>3, <1>5, <1>7, <2>1 DEF Execute, ExecuteTrend
    <2>3. ValidTrend(result.payload)
      BY <1>2, <1>5, <2>1, <2>2, TrendIsValid
    <2>4. DOMAIN <<s, a>> \subseteq DOMAIN q.selections
      BY <1>4, <1>7
    <2>5. \A g \in result.gaps : ValidGap(q, g)
      BY <2>2, <2>4, StateGapsAreValid
    <2> QED
      BY <1>7, <2>3, <2>5 DEF ValidResult
  <1>8. CASE q.intent = "trajectory"
    <2>1. PICK T : T = Trajectory(sel, q.cutoff, C)
      OBVIOUS
    <2>2. PICK p : p = TrajectoryPayload(T, s, C)
      OBVIOUS
    <2>3. result.payload = p /\ result.gaps = StateGaps(q, S, <<s>>, {sel})
      BY <1>1, <1>3, <1>5, <1>8, <2>1, <2>2 DEF Execute, ExecuteTrajectory
    <2>4. Chronology(q, result) = p.transitions /\ p.transitions = OrderTransitions(T, C)
      BY <1>8, <2>2, <2>3 DEF Chronology, TrajectoryPayload
    <2>5. Len(p.transitions) \in Nat
      BY <1>2, <1>4, <1>8, <2>1, <2>4, TransitionsAreOrdered
    <2>6. Len(p.transitions) <= q.limit
      BY <1>4, <1>8, <2>4, <2>5 DEF Chronicles
    <2>7. ValidTrajectory(q, p)
      BY <1>2, <1>3, <1>4, <1>5, <1>8, <2>1, <2>2, <2>6, TrajectoryPayloadIsValid
    <2>8. DOMAIN <<s>> \subseteq DOMAIN q.selections
      BY <1>4
    <2>9. \A g \in result.gaps : ValidGap(q, g)
      BY <2>3, <2>8, StateGapsAreValid
    <2> QED
      BY <1>8, <2>3, <2>7, <2>9 DEF ValidResult
  <1>9. CASE q.intent = "causal-chain"
    <2>1. PICK L : L = CausalLinks(sel, q.cutoff, C)
      OBVIOUS
    <2>2. PICK o : o = OrderLinks(L, C)
      OBVIOUS
    <2>3. PICK g0 : g0 = Gap("no-causal-evidence", None, CausalPredicate, sel.label)
      OBVIOUS
    <2>4. result.payload.links = o /\ result.gaps \subseteq {g0}
      BY <1>1, <1>3, <1>9, <2>1, <2>2, <2>3 DEF Execute, ExecuteCausal, CausalPayload
    <2>5. Chronology(q, result) = o
      BY <1>9, <2>4 DEF Chronology
    <2>6. Len(o) \in Nat /\ \A i \in DOMAIN o : o[i] \in L
      BY <1>2, <2>1, <2>2, LinksAreOrdered
    <2>7. Len(o) <= q.limit
      BY <1>4, <1>9, <2>5, <2>6 DEF Chronicles
    <2>8. \A l \in L : ValidFact(l)
      BY <1>2, <2>1, LinksAre
    <2>9. ValidCausal(q, result.payload)
      BY <2>4, <2>6, <2>7, <2>8 DEF ValidCausal
    <2>10. ValidGap(q, g0)
      <3>1. /\ g0.kind = "no-causal-evidence" /\ g0.entity = None
            /\ g0.predicate = CausalPredicate /\ g0.label = q.selections[1].label
        BY <1>3, <2>3 DEF Gap
      <3>2. q.predicates = {CausalPredicate}
        BY <1>9 DEF WellFormed
      <3> QED
        BY <1>4, <1>9, <3>1, <3>2 DEF ValidGap
    <2> QED
      BY <1>9, <2>4, <2>9, <2>10 DEF ValidResult
  <1> QED
    BY <1>4, <1>6, <1>7, <1>8, <1>9 DEF Intents

\* The service never refuses what it built: no well-formed question about what
\* the store can hold fails in NormalizeResult (Service.Query).
THEOREM ResultsStayValid == QuerySpec => []ResultsAreValid
  <1>1. QueryInit => ResultsAreValid
    BY DEF QueryInit, ResultsAreValid, Unanswered
  <1>2. ASSUME QueryInv, ResultsAreValid, [QueryNext]_queryVars
        PROVE  ResultsAreValid'
    <2>1. CASE UNCHANGED queryVars
      BY <1>2, <2>1 DEF queryVars, ResultsAreValid
    <2>2. ASSUME NEW r \in Observed, Record(r)
          PROVE  ResultsAreValid'
      BY <2>2 DEF Record, ResultsAreValid, Unanswered
    <2>3. ASSUME NEW q \in Requests, Refuse(q) \/ NotFound(q)
          PROVE  ResultsAreValid'
      BY <2>3 DEF ResultsAreValid, Refuse, NotFound
    <2>4. ASSUME NEW q \in Requests, Answered(q)
          PROVE  ResultsAreValid'
      <3>1. PICK S : S = Read(q)
        OBVIOUS
      <3>2. PICK result : result = Execute(q, S)
        OBVIOUS
      <3>3. /\ WellFormed(q)
            /\ answer' =
                 IF Chronicles(q) /\ Len(Chronology(q, result)) > q.limit
                   THEN [outcome |-> "limit-exceeded", query |-> q]
                 ELSE IF ~ValidResult(q, result) THEN [outcome |-> "invalid", query |-> q]
                 ELSE [outcome |-> "answered", query |-> q, result |-> result]
        BY <2>4, <3>1, <3>2 DEF Answered
      <3>4. ~(Chronicles(q) /\ Len(Chronology(q, result)) > q.limit) => ValidResult(q, result)
        BY <1>2, <3>1, <3>2, <3>3, ExecuteIsValid DEF QueryInv
      <3>5. answer'.outcome # "invalid"
        BY <3>3, <3>4
      <3> QED
        BY <3>5 DEF ResultsAreValid
    <2> QED
      BY <1>2, <2>1, <2>2, <2>3, <2>4 DEF QueryNext
  <1> QED
    BY <1>1, <1>2, QueryInvHolds, PTL DEF QuerySpec

-----------------------------------------------------------------------------
(* A trajectory is the sequence of the states of its points.               *)

\* At a boundary a key has a transition exactly when the states differ, and the
\* transition takes the one to the other.
LEMMA TransitionsOfAKey ==
  ASSUME NEW sel, Selection(sel), sel.kind = "window", NEW cutoff, NEW C, Legal(C),
         NEW o, o = OrderTransitions(Trajectory(sel, cutoff, C), C),
         NEW b \in Boundaries(sel, cutoff, C), b # sel.end, NEW k
  PROVE  LET p == FactsOf(StateBefore(sel, cutoff, C, b), k)
             a == FactsOf(StateFrom(sel, cutoff, C, b), k)
         IN /\ \A i \in DOMAIN o : o[i].key = k /\ o[i].at = b => o[i].before = p /\ o[i].after = a
            /\ Differ(p, a) => \E i \in DOMAIN o : o[i].key = k /\ o[i].at = b
  <1>1. PICK T : T = Trajectory(sel, cutoff, C)
    OBVIOUS
  <1>2. PICK x, y : x = StateBefore(sel, cutoff, C, b) /\ y = StateFrom(sel, cutoff, C, b)
    OBVIOUS
  <1>3. /\ \A i \in DOMAIN o : o[i] \in T
        /\ \A t \in T : \E i \in DOMAIN o : o[i] = t
    BY <1>1, TransitionsAreOrdered
  <1>4. ASSUME NEW t \in T, t.key = k, t.at = b
        PROVE  t.before = FactsOf(x, k) /\ t.after = FactsOf(y, k)
    <2>1. PICK c, j :
            /\ c \in Boundaries(sel, cutoff, C) \ {sel.end}
            /\ t = TransitionAt(StateBefore(sel, cutoff, C, c), StateFrom(sel, cutoff, C, c), j, c)
      BY <1>1, TrajectoryIs
    <2>2. c = b /\ j = k
      BY <1>4, <2>1 DEF TransitionAt
    <2>3. t = TransitionAt(x, y, k, b)
      BY <1>2, <2>1, <2>2
    <2> QED
      BY <2>3 DEF TransitionAt
  <1>5. ASSUME Differ(FactsOf(x, k), FactsOf(y, k))
        PROVE  \E t \in T : t.key = k /\ t.at = b
    <2>1. PICK t : t = TransitionAt(x, y, k, b)
      OBVIOUS
    <2>2. t \in T
      BY <1>1, <1>2, <1>5, <2>1, TrajectoryIs
    <2>3. t.key = k /\ t.at = b
      BY <2>1 DEF TransitionAt
    <2> QED
      BY <2>2, <2>3
  <1> QED
    BY <1>2, <1>3, <1>4, <1>5

\* The answer to a trajectory request.
LEMMA TrajectoryAnswer ==
  ASSUME QueryInv, IsAnswer({"trajectory"})
  PROVE  /\ Legal(Candidates) /\ Selection(Asked.selections[1])
         /\ Asked.selections[1].kind = "window" /\ 1 \in DOMAIN Asked.selections
         /\ answer.result.payload.transitions =
              OrderTransitions(Trajectory(Asked.selections[1], Asked.cutoff, Candidates),
                               Candidates)
         /\ answer.result.payload.unresolved
              = Summary(Asked.selections[1], Asked.cutoff, Candidates).unresolved
  <1>1. PICK q : q = Asked
    OBVIOUS
  <1>2. PICK S : S = Read(q)
    OBVIOUS
  <1>3. PICK sel, C : sel = q.selections[1] /\ C = S.candidates
    OBVIOUS
  <1>4. /\ q \in Requests /\ WellFormed(q) /\ answer.result = Execute(q, S)
        /\ q.intent = "trajectory" /\ Candidates = C
    BY <1>1, <1>2, <1>3 DEF QueryInv, IsAnswer, Asked, Candidates
  <1>5. 1 \in DOMAIN q.selections /\ Selection(sel) /\ sel.kind = "window"
    BY <1>3, <1>4, AskedSelections
  <1>6. Legal(C)
    BY <1>4, CandidatesAreLegal
  <1>7. PICK T, s : T = Trajectory(sel, q.cutoff, C) /\ s = Summary(sel, q.cutoff, C)
    OBVIOUS
  <1>8. answer.result.payload = TrajectoryPayload(T, s, C)
    BY <1>3, <1>4, <1>7 DEF Execute, ExecuteTrajectory
  <1>9. /\ answer.result.payload.transitions = OrderTransitions(T, C)
        /\ answer.result.payload.unresolved = s.unresolved
    BY <1>8 DEF TrajectoryPayload
  <1> QED
    BY <1>1, <1>3, <1>4, <1>5, <1>6, <1>7, <1>9

\* What the transitions "here" of a key say of a point of the window.
AtPoint(C, cutoff, k, t, o, here) ==
  IF here = {} THEN StateAt(C, cutoff, t - 1, k) = StateAt(C, cutoff, t, k)
  ELSE \A i \in here : /\ {f.value : f \in o[i].before} = StateAt(C, cutoff, t - 1, k)
                       /\ {f.value : f \in o[i].after} = StateAt(C, cutoff, t, k)

LEMMA PointOfTrajectory ==
  ASSUME NEW sel, Selection(sel), sel.kind = "window", NEW cutoff, NEW C, Legal(C), NoInstants(C),
         NEW o, o = OrderTransitions(Trajectory(sel, cutoff, C), C),
         NEW k, NEW t \in sel.start..(sel.end - 1),
         NEW here, here = {i \in DOMAIN o : o[i].key = k /\ o[i].at = t}
  PROVE  AtPoint(C, cutoff, k, t, o, here)
  <1>1. PICK B : B = Boundaries(sel, cutoff, C)
    OBVIOUS
  <1>2. CASE t \in B
    <2>1. t # sel.end /\ t \in Nat /\ sel.end \in Nat /\ t < sel.end
      BY DEF Selection
    <2>2. B \subseteq Nat /\ sel.end \in B
      BY <1>1, BoundariesAre
    <2>3. t \in t..(NextBound(B, t) - 1)
      <3>1. NextBound(B, t) \in B /\ NextBound(B, t) > t
        BY <2>1, <2>2, NextBoundIs
      <3>2. PICK n : n = NextBound(B, t) /\ n \in Nat /\ n > t
        BY <2>2, <3>1
      <3>3. t \in t..(n - 1)
        BY <2>1, <3>2
      <3> QED
        BY <3>2, <3>3
    <2>4. StateFrom(sel, cutoff, C, t) = Summary(At(t), cutoff, C)
      BY <1>1, <1>2, <2>1, <2>3, StateFromAt
    <2>5. StateBefore(sel, cutoff, C, t) = Summary(At(t - 1), cutoff, C)
      BY <1>1, <1>2, StateBeforeAt
    <2>6. PICK p, a : /\ p = FactsOf(Summary(At(t - 1), cutoff, C), k)
                      /\ a = FactsOf(Summary(At(t), cutoff, C), k)
      OBVIOUS
    <2>7. /\ \A i \in here : o[i].before = p /\ o[i].after = a
          /\ Differ(p, a) => here # {}
      BY <1>1, <1>2, <2>1, <2>4, <2>5, <2>6, TransitionsOfAKey
    <2>8. /\ StateAt(C, cutoff, t - 1, k) = {f.value : f \in p}
          /\ StateAt(C, cutoff, t, k) = {f.value : f \in a}
      BY <2>6 DEF StateAt
    <2> QED
      BY <2>7, <2>8 DEF Differ, AtPoint
  <1>3. CASE t \notin B
    <2>1. Summary(At(t - 1), cutoff, C) = Summary(At(t), cutoff, C)
      BY <1>1, <1>3, NoChangeWithin
    <2>2. StateAt(C, cutoff, t - 1, k) = StateAt(C, cutoff, t, k)
      BY <2>1 DEF StateAt
    <2>3. here = {}
      <3>1. \A i \in DOMAIN o : o[i] \in Trajectory(sel, cutoff, C)
        BY TransitionsAreOrdered
      <3>2. \A u \in Trajectory(sel, cutoff, C) : u.at \in B
        BY <1>1, TrajectoryIs DEF TransitionAt
      <3> QED
        BY <1>3, <3>1, <3>2
    <2> QED
      BY <2>2, <2>3 DEF AtPoint
  <1> QED
    BY <1>2, <1>3

\* What TrajectoryIsPointwise says of one sequence of transitions.
PointByPoint(sel, cutoff, C, T) ==
  LET state(t, k) == StateAt(C, cutoff, t, k)
  IN /\ \A i, j \in DOMAIN T : i < j => T[i].at <= T[j].at
     /\ \A k \in KeysOf(C) : \A t \in sel.start..(sel.end - 1) :
          LET here == {i \in DOMAIN T : T[i].key = k /\ T[i].at = t}
          IN IF here = {} THEN state(t - 1, k) = state(t, k)
             ELSE \A i \in here : /\ {f.value : f \in T[i].before} = state(t - 1, k)
                                  /\ {f.value : f \in T[i].after} = state(t, k)

LEMMA TrajectoryPointwise ==
  ASSUME NEW sel, Selection(sel), sel.kind = "window", NEW cutoff, NEW C, Legal(C), NoInstants(C),
         NEW o, o = OrderTransitions(Trajectory(sel, cutoff, C), C)
  PROVE  PointByPoint(sel, cutoff, C, o)
  <1>1. \A i, j \in DOMAIN o : i < j => o[i].at <= o[j].at
    BY TransitionsAreOrdered
  <1>2. ASSUME NEW k, NEW t \in sel.start..(sel.end - 1)
        PROVE  LET here == {i \in DOMAIN o : o[i].key = k /\ o[i].at = t}
               IN IF here = {} THEN StateAt(C, cutoff, t - 1, k) = StateAt(C, cutoff, t, k)
                  ELSE \A i \in here :
                         /\ {f.value : f \in o[i].before} = StateAt(C, cutoff, t - 1, k)
                         /\ {f.value : f \in o[i].after} = StateAt(C, cutoff, t, k)
    <2>1. PICK here : here = {i \in DOMAIN o : o[i].key = k /\ o[i].at = t}
      OBVIOUS
    <2>2. AtPoint(C, cutoff, k, t, o, here)
      BY <2>1, PointOfTrajectory
    <2> QED
      BY <2>1, <2>2 DEF AtPoint
  <1> QED
    BY <1>1, <1>2 DEF PointByPoint

\* Read in the order given, a trajectory's transitions take every key through
\* the states that the points of the window have, and through no other
\* (BuildTrajectory).
THEOREM TrajectoriesArePointwise == QuerySpec => []TrajectoryIsPointwise
  <1>1. QueryInv => TrajectoryIsPointwise
    <2> SUFFICES ASSUME QueryInv, IsAnswer({"trajectory"}),
                        \A c \in Candidates : c.extent.kind # "instant"
                 PROVE  PointByPoint(Asked.selections[1], Asked.cutoff, Candidates,
                                     answer.result.payload.transitions)
      BY DEF TrajectoryIsPointwise, PointByPoint
    <2>1. NoInstants(Candidates)
      BY DEF NoInstants
    <2> QED
      BY <2>1, TrajectoryAnswer, TrajectoryPointwise
  <1> QED
    BY <1>1, QueryInvHolds, PTL

-----------------------------------------------------------------------------
(* Every observation is accounted for.                                     *)

\* What a selection does not touch, and whose time is known, is outside it.
LEMMA UntouchedIsOutside ==
  ASSUME NEW sel, Selection(sel), NEW x \in Extents, ~Touches(sel, x)
  PROVE  DefinitelyOutside(sel, x)
  <1>1. /\ x.start \in Nat /\ x.end \in Nat
        /\ x.kind = "unknown" <=> x.start = 0 /\ x.end = 0
    BY DEF Extents, NoBound
  <1>2. /\ sel.kind \in {"point", "window"} /\ sel.start \in Nat \ {0}
        /\ sel.kind = "window" => sel.end \in Nat /\ sel.start < sel.end
    BY DEF Selection
  <1>3. CASE sel.kind = "point"
    <2>1. ~IF x.kind = "instant" THEN x.start = sel.start ELSE Covers(x, sel.start)
      BY <1>3 DEF Touches
    <2>2. x.kind # "unknown"
      BY <1>1, <2>1 DEF Covers, StartsBy, EndsAfter, NoBound
    <2> QED
      BY <1>3, <2>1, <2>2 DEF DefinitelyOutside
  <1>4. CASE sel.kind = "window"
    <2>1. ~IF x.kind = "instant" THEN x.start >= sel.start /\ x.start < sel.end
           ELSE StartsBefore(x, sel.end) /\ EndsAfter(x, sel.start)
      BY <1>4 DEF Touches
    <2>2. CASE x.kind = "instant"
      BY <1>1, <1>2, <1>4, <2>1, <2>2 DEF DefinitelyOutside
    <2>3. CASE x.kind # "instant"
      <3>1. \/ x.start # 0 /\ x.start >= sel.end
            \/ x.end # 0 /\ x.end <= sel.start
        BY <1>1, <1>2, <1>4, <2>1, <2>3 DEF StartsBefore, EndsAfter, NoBound
      <3>2. x.kind # "unknown"
        BY <1>1, <3>1
      <3> QED
        BY <1>4, <2>3, <3>1, <3>2 DEF DefinitelyOutside, NoBound
    <2> QED
      BY <2>2, <2>3
  <1> QED
    BY <1>2, <1>3, <1>4

\* A candidate that a selection touches has the value of its key's fact, or is
\* cited where its key is unresolved.
LEMMA MaterialIsReported ==
  ASSUME NEW C, Legal(C), NEW sel, NEW cutoff, NEW c \in Material(sel, cutoff, C),
         NEW s, s = Summary(sel, cutoff, C)
  PROVE  \/ /\ Settles(GroupOf(sel, cutoff, C, c.key), c.value)
            /\ \E f \in s.facts : f.key = c.key /\ f.value = c.value
         \/ \E u \in s.unresolved : \E f \in u.candidates : f.key = c.key /\ c.id \in f.ids
  <1>1. PICK M, k : M = GroupOf(sel, cutoff, C, k) /\ k = c.key
    OBVIOUS
  <1>2. c \in M
    BY <1>1 DEF GroupOf, OfKey
  <1>3. CASE \E v : Settles(M, v)
    <2>1. PICK v : Settles(M, v)
      BY <1>3
    <2>2. v = c.value
      BY <1>2, <2>1, SettledOnce
    <2>3. PICK f : f = Fact(k, v, Supported(M))
      OBVIOUS
    <2>4. f \in s.facts
      BY <1>1, <2>1, <2>3, SummaryFacts
    <2>5. f.key = k /\ f.value = v
      BY <2>3 DEF Fact
    <2> QED
      BY <1>1, <2>1, <2>2, <2>4, <2>5
  <1>4. CASE ~\E v : Settles(M, v)
    <2>1. PICK u : u = Unresolved(k, M)
      OBVIOUS
    <2>2. Contested(M) /\ M # {}
      BY <1>2, <1>4 DEF Contested
    <2>3. u \in s.unresolved
      BY <1>1, <2>1, <2>2, SummaryUnresolved
    <2>4. IsFiniteSet(M) /\ Evident(M)
      BY <1>1, LegalGroup
    <2>5. /\ \A f \in u.candidates : f.key = k
          /\ \E f \in u.candidates : c.id \in f.ids
      BY <1>2, <2>1, <2>2, <2>4, UnresolvedIsValid
    <2> QED
      BY <1>1, <2>3, <2>5
  <1> QED
    BY <1>3, <1>4

\* A gap that reports a candidate as outside a selection.
GapFor(g, sel, c) ==
  /\ g.kind = "valid-time-excluded" /\ g.label = sel.label
  /\ g.predicate = c.key.predicate
  /\ g.entity \in StateEntities(c) \cup {None}

LEMMA OutsideHasGap ==
  ASSUME NEW q, NEW S, NEW summaries, NEW within, NEW i \in DOMAIN summaries,
         NEW sel, sel = q.selections[i], NEW c \in S.candidates, c.status # "rejected",
         DefinitelyOutside(sel, c.extent)
  PROVE  \E g \in StateGaps(q, S, summaries, within) : GapFor(g, sel, c)
  <1>1. PICK es : es = StateEntities(c) \cap q.entities
    OBVIOUS
  <1>2. PICK e : e \in (IF es = {} THEN {None} ELSE es)
    OBVIOUS
  <1>3. PICK g : g = Gap("valid-time-excluded", e, c.key.predicate, sel.label)
    OBVIOUS
  <1>4. GapFor(g, sel, c)
    BY <1>1, <1>2, <1>3 DEF GapFor, Gap
  <1>5. g \in ValidTimeGaps(q, S.candidates, sel)
    BY <1>1, <1>2, <1>3 DEF ValidTimeGaps
  <1>6. g \in StateGaps(q, S, summaries, within)
    BY <1>5 DEF StateGaps
  <1> QED
    BY <1>4, <1>6

\* What an intent that summarizes a selection says of a candidate.
LEMMA Accounted ==
  ASSUME StoreInv, NEW q, NEW S, S = Read(q), NEW summaries, NEW within,
         NEW i \in DOMAIN summaries, NEW sel, sel = q.selections[i], Selection(sel),
         NEW s, s = Summary(sel, q.cutoff, S.candidates),
         NEW c \in S.candidates, c.status # "rejected"
  PROVE  \/ /\ Settles(GroupOf(sel, q.cutoff, S.candidates, c.key), c.value)
            /\ \E f \in s.facts : f.key = c.key /\ f.value = c.value
         \/ \E u \in s.unresolved : \E f \in u.candidates : f.key = c.key /\ c.id \in f.ids
         \/ \E g \in StateGaps(q, S, summaries, within) : GapFor(g, sel, c)
  <1>1. PICK C : C = S.candidates
    OBVIOUS
  <1>2. Legal(C) /\ InScope(q.cutoff, c.recorded)
    BY <1>1, ReadIsLegal
  <1>3. CASE Touches(sel, c.extent)
    <2>1. c \in Material(sel, q.cutoff, C)
      BY <1>1, <1>2, <1>3 DEF Material
    <2> QED
      BY <1>1, <1>2, <2>1, MaterialIsReported
  <1>4. CASE ~Touches(sel, c.extent)
    <2>1. c.extent \in Extents
      BY <1>1, <1>2 DEF Legal
    <2>2. DefinitelyOutside(sel, c.extent)
      BY <1>4, <2>1, UntouchedIsOutside
    <2> QED
      BY <2>2, OutsideHasGap
  <1> QED
    BY <1>3, <1>4

-----------------------------------------------------------------------------
(* A key that a window settles keeps one value through its partitions.     *)

\* A partition touches nothing that its window does not touch.
LEMMA PartOfWindow ==
  ASSUME NEW sel, Selection(sel), sel.kind = "window", NEW cutoff, NEW C, Legal(C),
         NEW b \in Nat, NEW n \in Nat, sel.start <= b, b < n, n <= sel.end, NEW k
  PROVE  GroupOf(Between(b, n), cutoff, C, k) \in SUBSET GroupOf(sel, cutoff, C, k)
  <1>1. PICK s, e : s = sel.start /\ e = sel.end /\ s \in Nat \ {0} /\ e \in Nat /\ s < e
    BY DEF Selection
  <1>2. ASSUME NEW c \in C, Touches(Between(b, n), c.extent)
        PROVE  Touches(sel, c.extent)
    <2>1. PICK x : x = c.extent
      OBVIOUS
    <2>2. x.start \in Nat /\ x.end \in Nat
      BY <2>1 DEF Legal, Extents
    <2>3. IF x.kind = "instant" THEN x.start >= b /\ x.start < n
          ELSE (x.start = 0 \/ x.start < n) /\ (x.end = 0 \/ x.end > b)
      BY <1>2, <2>1 DEF Touches, Between, StartsBefore, EndsAfter, NoBound
    <2>4. IF x.kind = "instant" THEN x.start >= s /\ x.start < e
          ELSE (x.start = 0 \/ x.start < e) /\ (x.end = 0 \/ x.end > s)
      BY <1>1, <2>2, <2>3
    <2> QED
      BY <1>1, <2>1, <2>4 DEF Touches, StartsBefore, EndsAfter, NoBound
  <1> QED
    BY <1>2 DEF GroupOf, OfKey, Material

\* The bounds of a partition.
LEMMA PartitionBounds ==
  ASSUME NEW sel, Selection(sel), sel.kind = "window", NEW cutoff, NEW C, Legal(C),
         NEW B, B = Boundaries(sel, cutoff, C), NEW b \in B, b # sel.end
  PROVE  /\ b \in Nat /\ sel.start <= b /\ b < sel.end
         /\ NextBound(B, b) \in Nat /\ b < NextBound(B, b) /\ NextBound(B, b) <= sel.end
  <1>1. PICK s, e : s = sel.start /\ e = sel.end /\ s \in Nat \ {0} /\ e \in Nat /\ s < e
    BY DEF Selection
  <1>2. B \subseteq Nat /\ e \in B /\ b \in Nat /\ s <= b /\ b < e
    BY <1>1, BoundariesAre
  <1>3. PICK n : n = NextBound(B, b)
    OBVIOUS
  <1>4. n \in B /\ n > b /\ \A m \in B : m > b => n <= m
    BY <1>2, <1>3, NextBoundIs
  <1> QED
    BY <1>1, <1>2, <1>3, <1>4

\* The values that the facts of a summary give to a key.
StateIn(S, k) == {f.value : f \in FactsOf(S, k)}

\* The state of a settled key in a partition.
LEMMA PartitionOfSettled ==
  ASSUME NEW sel, Selection(sel), sel.kind = "window", NEW cutoff, NEW C, Legal(C),
         NEW k, NEW v, Settles(GroupOf(sel, cutoff, C, k), v),
         NEW b \in Boundaries(sel, cutoff, C), b # sel.end
  PROVE  StateIn(StateFrom(sel, cutoff, C, b), k) \subseteq {v}
  <1>1. PICK B, n : B = Boundaries(sel, cutoff, C) /\ n = NextBound(B, b)
    OBVIOUS
  <1>2. b \in Nat /\ n \in Nat /\ sel.start <= b /\ b < n /\ n <= sel.end
    BY <1>1, PartitionBounds
  <1>3. PICK M, L : M = GroupOf(sel, cutoff, C, k) /\ L = GroupOf(Between(b, n), cutoff, C, k)
    OBVIOUS
  <1>4. L \in SUBSET M
    BY <1>2, <1>3, PartOfWindow
  <1>5. Values(L) \subseteq {v}
    BY <1>3, <1>4, PartOfSettled
  <1>6. SettledValues(L) \subseteq {v}
    BY <1>5 DEF SettledValues
  <1>7. StateFrom(sel, cutoff, C, b) = Summary(Between(b, n), cutoff, C)
    BY <1>1 DEF StateFrom, Partition
  <1> QED
    BY <1>3, <1>6, <1>7, StateOfKey DEF StateIn

\* One of the partitions has the value.
LEMMA SomePartitionSettles ==
  ASSUME NEW sel, Selection(sel), sel.kind = "window", NEW cutoff, NEW C, Legal(C),
         NEW k, NEW v, Settles(GroupOf(sel, cutoff, C, k), v)
  PROVE  \E b \in Boundaries(sel, cutoff, C) \ {sel.end} :
           StateIn(StateFrom(sel, cutoff, C, b), k) = {v}
  <1>1. PICK B, M : B = Boundaries(sel, cutoff, C) /\ M = GroupOf(sel, cutoff, C, k)
    OBVIOUS
  <1>2. PICK s, e : s = sel.start /\ e = sel.end /\ s \in Nat \ {0} /\ e \in Nat /\ s < e
    BY DEF Selection
  <1>3. PICK d : d \in Supported(M)
    BY <1>1, SettledOnce
  <1>4. /\ d \in C /\ Touches(sel, d.extent) /\ d.key = k /\ InScope(cutoff, d.recorded)
        /\ d.status # "rejected" /\ Holds(d)
    BY <1>1, <1>3, SupportedTouch DEF GroupOf
  <1>5. PICK x : x = d.extent
    OBVIOUS
  <1>6. /\ x.start \in Nat /\ x.end \in Nat
        /\ x.start # 0 /\ x.end # 0 => x.start < x.end
        /\ x.kind = "instant" => x.end = 0
    BY <1>4, <1>5 DEF Legal, Extents, NoBound
  <1>7. IF x.kind = "instant" THEN x.start >= s /\ x.start < e
        ELSE (x.start = 0 \/ x.start < e) /\ (x.end = 0 \/ x.end > s)
    BY <1>2, <1>4, <1>5 DEF Touches, StartsBefore, EndsAfter, NoBound
  <1>8. PICK b : b = IF x.start >= s THEN x.start ELSE s
    OBVIOUS
  <1>9. b \in Nat /\ s <= b /\ b < e
    BY <1>2, <1>6, <1>7, <1>8
  <1>10. b \in B
    <2>1. CASE x.start >= s
      <3>1. b = x.start /\ x.start < e
        BY <1>8, <1>9, <2>1
      <3> QED
        BY <1>1, <1>2, <1>4, <1>5, <2>1, <3>1 DEF Boundaries
    <2>2. CASE ~(x.start >= s)
      BY <1>1, <1>2, <1>8, <2>2 DEF Boundaries
    <2> QED
      BY <2>1, <2>2
  <1>11. PICK n : n = NextBound(B, b)
    OBVIOUS
  <1>12. n \in Nat /\ b < n /\ n <= e
    BY <1>1, <1>2, <1>9, <1>10, <1>11, PartitionBounds
  <1>13. IF x.kind = "instant" THEN x.start >= b /\ x.start < n
         ELSE (x.start = 0 \/ x.start < n) /\ (x.end = 0 \/ x.end > b)
    BY <1>2, <1>6, <1>7, <1>8, <1>9, <1>12
  <1>14. Touches(Between(b, n), x)
    BY <1>13 DEF Touches, Between, StartsBefore, EndsAfter, NoBound
  <1>15. PICK L : L = GroupOf(Between(b, n), cutoff, C, k)
    OBVIOUS
  <1>16. L \in SUBSET M
    BY <1>1, <1>2, <1>9, <1>12, <1>15, PartOfWindow
  <1>17. d \in Supported(L)
    BY <1>4, <1>5, <1>14, <1>15, SupportedTouch DEF GroupOf
  <1>18. /\ CounterOnly(L) = {} /\ Values(L) \subseteq {v}
         /\ Values(Supported(L)) \subseteq {v}
    BY <1>1, <1>16, PartOfSettled
  <1>19. Settles(L, v)
    <2>1. Values(Supported(L)) = {v}
      BY <1>17, <1>18 DEF Values
    <2>2. Values(Tentative(L)) \subseteq {v}
      BY <1>18 DEF Values, Tentative, Uncertain, Hypothesized
    <2> QED
      BY <1>18, <2>1, <2>2 DEF Settles
  <1>20. SettledValues(L) = {v}
    BY <1>19, SettledOnce
  <1>21. StateFrom(sel, cutoff, C, b) = Summary(Between(b, n), cutoff, C)
    BY <1>1, <1>11 DEF StateFrom, Partition
  <1>22. StateIn(StateFrom(sel, cutoff, C, b), k) = {v}
    BY <1>15, <1>20, <1>21, StateOfKey DEF StateIn
  <1> QED
    BY <1>1, <1>2, <1>9, <1>10, <1>22

\* Before a boundary is what was before the window, or an earlier partition.
LEMMA BeforeABoundary ==
  ASSUME NEW sel, Selection(sel), sel.kind = "window", NEW cutoff, NEW C, Legal(C),
         NEW b \in Boundaries(sel, cutoff, C)
  PROVE  \/ b = sel.start /\ StateBefore(sel, cutoff, C, b) = Summary(JustBefore(b), cutoff, C)
         \/ \E p \in Boundaries(sel, cutoff, C) \ {sel.end} :
              p < b /\ StateBefore(sel, cutoff, C, b) = StateFrom(sel, cutoff, C, p)
  <1>1. PICK B : B = Boundaries(sel, cutoff, C)
    OBVIOUS
  <1>2. PICK s, e : s = sel.start /\ e = sel.end /\ s \in Nat \ {0} /\ e \in Nat /\ s < e
    BY DEF Selection
  <1>3. B \subseteq Nat /\ s \in B /\ s <= b /\ b <= e /\ b \in Nat
    BY <1>1, <1>2, BoundariesAre
  <1>4. CASE b = s
    BY <1>2, <1>4 DEF StateBefore
  <1>5. CASE b # s
    <2>1. PICK p : p = PreviousBound(B, b)
      OBVIOUS
    <2>2. s < b
      BY <1>2, <1>3, <1>5
    <2>3. p \in B /\ p < b /\ p \in Nat
      BY <1>3, <2>1, <2>2, PreviousBoundIs
    <2>4. StateBefore(sel, cutoff, C, b) = StateFrom(sel, cutoff, C, p)
      BY <1>1, <1>2, <1>5, <2>1 DEF StateBefore, StateFrom
    <2>5. p # sel.end
      BY <1>2, <1>3, <2>3
    <2> QED
      BY <1>1, <2>3, <2>4, <2>5
  <1> QED
    BY <1>4, <1>5

\* The facts that the transitions of a trajectory show.
FactsShown(o) == UNION {t.before \cup t.after : t \in ToSet(o)}

LEMMA ShownAre ==
  ASSUME NEW o, NEW f
  PROVE  f \in FactsShown(o) <=> \E i \in DOMAIN o : f \in o[i].before \/ f \in o[i].after
  BY DEF FactsShown, ToSet

\* A key that a window settles has a transition to its value, unless it has the
\* value from the beginning; then no transition shows another one.
LEMMA SettledIsShown ==
  ASSUME NEW sel, Selection(sel), sel.kind = "window", NEW cutoff, NEW C, Legal(C),
         NEW k, NEW v, Settles(GroupOf(sel, cutoff, C, k), v),
         NEW o, o = OrderTransitions(Trajectory(sel, cutoff, C), C)
  PROVE  \/ \E f \in FactsShown(o) : f.key = k /\ f.value = v
         \/ /\ \A f \in FactsShown(o) : f.key # k
            /\ {f.value : f \in FactsOf(Summary(JustBefore(sel.start), cutoff, C), k)} = {v}
  <1> DEFINE before(b) == FactsOf(StateBefore(sel, cutoff, C, b), k)
             from(b) == FactsOf(StateFrom(sel, cutoff, C, b), k)
             outset == FactsOf(Summary(JustBefore(sel.start), cutoff, C), k)
  <1>1. PICK B : B = Boundaries(sel, cutoff, C)
    OBVIOUS
  <1>2. B \subseteq Nat
    BY <1>1, BoundariesAre
  <1>3. \A b \in B \ {sel.end} : {f.value : f \in from(b)} \subseteq {v}
    BY <1>1, PartitionOfSettled DEF StateIn
  <1>4. \A b \in B : \/ b = sel.start /\ before(b) = outset
                     \/ \E p \in B \ {sel.end} : p < b /\ before(b) = from(p)
    BY <1>1, BeforeABoundary
  <1>5. \A b \in B \ {sel.end} :
          /\ \A i \in DOMAIN o : o[i].key = k /\ o[i].at = b =>
               o[i].before = before(b) /\ o[i].after = from(b)
          /\ Differ(before(b), from(b)) => \E i \in DOMAIN o : o[i].key = k /\ o[i].at = b
    BY <1>1, TransitionsOfAKey
  <1>6. \A b : \A f \in from(b) : f.key = k
    BY DEF FactsOf
  <1>7. PICK T : T = Trajectory(sel, cutoff, C)
    OBVIOUS
  <1>8. \A i \in DOMAIN o : o[i] \in T
    BY <1>7, TransitionsAreOrdered
  <1>9. \A t \in T : ValidChange(t)
    BY <1>7, TrajectoryIsValid
  <1>10. \A t \in T : t.at \in B \ {sel.end}
    BY <1>1, <1>7, TrajectoryIs DEF TransitionAt
  <1>11. \E b \in B \ {sel.end} : {f.value : f \in from(b)} = {v}
    <2>1. PICK b \in Boundaries(sel, cutoff, C) \ {sel.end} :
            StateIn(StateFrom(sel, cutoff, C, b), k) = {v}
      BY SomePartitionSettles
    <2>2. b \in B \ {sel.end} /\ {f.value : f \in from(b)} = {v}
      BY <1>1, <2>1 DEF StateIn
    <2> QED
      BY <2>2
  <1> HIDE DEF before, from, outset
  <1>12. CASE {f.value : f \in outset} = {v}
    <2>1. ASSUME NEW f \in FactsShown(o), f.key = k
          PROVE  f.value = v
      <3>1. PICK i \in DOMAIN o : f \in o[i].before \/ f \in o[i].after
        BY ShownAre
      <3>2. o[i].key = k
        BY <1>8, <1>9, <2>1, <3>1 DEF ValidChange
      <3>3. PICK b \in B \ {sel.end} : o[i].at = b
        BY <1>8, <1>10
      <3>4. f \in before(b) \/ f \in from(b)
        BY <1>5, <3>1, <3>2, <3>3
      <3>5. f \in outset \/ \E p \in B \ {sel.end} : f \in from(p)
        BY <1>4, <3>4
      <3> QED
        BY <1>3, <1>12, <3>5
    <2> QED
      BY <1>12, <2>1 DEF outset
  <1>13. CASE {f.value : f \in outset} # {v}
    <2>1. PICK D : D = {b \in B \ {sel.end} : {f.value : f \in from(b)} = {v}}
      OBVIOUS
    <2>2. D \subseteq Nat /\ D # {}
      BY <1>2, <1>11, <2>1
    <2>3. PICK b \in D : \A x \in D : b <= x
      BY <2>2, LeastOf
    <2>4. b \in B \ {sel.end} /\ {f.value : f \in from(b)} = {v} /\ b \in Nat
      BY <2>1, <2>2, <2>3
    <2>5. {f.value : f \in before(b)} # {v}
      <3>1. CASE b = sel.start /\ before(b) = outset
        BY <1>13, <3>1
      <3>2. ASSUME NEW p \in B \ {sel.end}, p < b, before(b) = from(p)
            PROVE  {f.value : f \in before(b)} # {v}
        <4>1. p \notin D
          BY <1>2, <2>3, <2>4, <3>2
        <4> QED
          BY <2>1, <3>2, <4>1
      <3> QED
        BY <1>4, <2>4, <3>1, <3>2
    <2>6. Differ(before(b), from(b))
      BY <2>4, <2>5 DEF Differ
    <2>7. PICK i \in DOMAIN o : o[i].key = k /\ o[i].at = b
      BY <1>5, <2>4, <2>6
    <2>8. o[i].after = from(b)
      BY <1>5, <2>4, <2>7
    <2>9. PICK f \in from(b) : f.value = v
      BY <2>4
    <2>10. f \in FactsShown(o) /\ f.key = k
      BY <1>6, <2>7, <2>8, <2>9, ShownAre
    <2> QED
      BY <2>9, <2>10
  <1> QED
    BY <1>12, <1>13

-----------------------------------------------------------------------------
(* What each intent reports.                                               *)

\* A selection with what the answer says about it accounts for a candidate.
AccountsFor(w, c, gaps, outset) ==
  \/ \E f \in w[2] \cup UNION {u.candidates : u \in w[3]} :
       f.key = c.key /\ (c.id \in f.ids \/ f.value = c.value)
  \/ \E g \in gaps : /\ g.kind = "valid-time-excluded" /\ g.label = w[1].label
                     /\ g.predicate = c.key.predicate
                     /\ g.entity \in StateEntities(c) \cup {None}
  \/ /\ Asked.intent = "trajectory" /\ \A f \in w[2] : f.key # c.key
     /\ outset = {c.value}

LEMMA FactAccounts ==
  ASSUME NEW w, NEW c, NEW gaps, NEW outset,
         \/ \E f \in w[2] : f.key = c.key /\ f.value = c.value
         \/ \E u \in w[3] : \E f \in u.candidates : f.key = c.key /\ c.id \in f.ids
         \/ \E g \in gaps : GapFor(g, w[1], c)
  PROVE  AccountsFor(w, c, gaps, outset)
  BY DEF AccountsFor, GapFor

LEMMA AnswerAccounts ==
  ASSUME QueryInv, IsAnswer({"point-in-time", "trend-comparison", "trajectory"}),
         NEW c \in Candidates, c.status # "rejected", NEW w \in Reported,
         NEW outset,
         outset = {f.value : f \in FactsOf(Summary(JustBefore(w[1].start), Asked.cutoff,
                                                       Candidates),
                                           c.key)}
  PROVE  AccountsFor(w, c, answer.result.gaps, outset)
  <1>1. PICK q : q = Asked
    OBVIOUS
  <1>2. PICK S : S = Read(q)
    OBVIOUS
  <1>3. PICK sel, C : sel = q.selections[1] /\ C = S.candidates
    OBVIOUS
  <1>4. PICK p, gaps : p = answer.result.payload /\ gaps = answer.result.gaps
    OBVIOUS
  <1>5. /\ q \in Requests /\ WellFormed(q) /\ StoreInv
        /\ p = Execute(q, S).payload /\ gaps = Execute(q, S).gaps
        /\ q.intent \in {"point-in-time", "trend-comparison", "trajectory"} /\ Candidates = C
    BY <1>1, <1>2, <1>3, <1>4 DEF QueryInv, IsAnswer, Asked, Candidates
  <1>6. /\ 1 \in DOMAIN q.selections /\ Selection(sel)
        /\ q.intent = "trend-comparison" => Selection(q.selections[2])
        /\ q.intent # "point-in-time" => sel.kind = "window"
    BY <1>3, <1>5, AskedSelections
  <1>7. c \in S.candidates /\ Legal(C)
    BY <1>2, <1>3, <1>5, ReadIsLegal
  <1>8. PICK s : s = Summary(sel, q.cutoff, C)
    OBVIOUS
  <1>9. CASE q.intent = "point-in-time"
    <2>1. p = s /\ gaps = StateGaps(q, S, <<s>>, {sel})
      BY <1>3, <1>5, <1>8, <1>9 DEF Execute, ExecutePoint
    <2>2. w = <<sel, s.facts, s.unresolved>>
      BY <1>1, <1>3, <1>4, <1>9, <2>1 DEF Reported
    <2>3. 1 \in DOMAIN <<s>>
      OBVIOUS
    <2>4. \/ \E f \in s.facts : f.key = c.key /\ f.value = c.value
          \/ \E u \in s.unresolved : \E f \in u.candidates : f.key = c.key /\ c.id \in f.ids
          \/ \E g \in gaps : GapFor(g, sel, c)
      BY <1>2, <1>3, <1>5, <1>6, <1>7, <1>8, <2>1, <2>3, Accounted
    <2>5. w[1] = sel /\ w[2] = s.facts /\ w[3] = s.unresolved
      BY <2>2
    <2> QED
      BY <1>4, <2>4, <2>5, FactAccounts
  <1>10. CASE q.intent = "trend-comparison"
    <2>1. PICK a, sel2 : a = Summary(sel2, q.cutoff, C) /\ sel2 = q.selections[2]
      OBVIOUS
    <2>2. p.before = s /\ p.after = a /\ gaps = StateGaps(q, S, <<s, a>>, {})
      BY <1>3, <1>5, <1>8, <1>10, <2>1 DEF Execute, ExecuteTrend, TrendPayload
    <2>3. w \in {<<sel, s.facts, s.unresolved>>, <<sel2, a.facts, a.unresolved>>}
      BY <1>1, <1>3, <1>4, <1>10, <2>1, <2>2 DEF Reported
    <2>4. 1 \in DOMAIN <<s, a>> /\ 2 \in DOMAIN <<s, a>>
      OBVIOUS
    <2>5. \/ \E f \in s.facts : f.key = c.key /\ f.value = c.value
          \/ \E u \in s.unresolved : \E f \in u.candidates : f.key = c.key /\ c.id \in f.ids
          \/ \E g \in gaps : GapFor(g, sel, c)
      BY <1>2, <1>3, <1>5, <1>6, <1>7, <1>8, <2>2, <2>4, Accounted
    <2>6. \/ \E f \in a.facts : f.key = c.key /\ f.value = c.value
          \/ \E u \in a.unresolved : \E f \in u.candidates : f.key = c.key /\ c.id \in f.ids
          \/ \E g \in gaps : GapFor(g, sel2, c)
      BY <1>2, <1>3, <1>5, <1>6, <1>7, <1>10, <2>1, <2>2, <2>4, Accounted
    <2>7. \/ w[1] = sel /\ w[2] = s.facts /\ w[3] = s.unresolved
          \/ w[1] = sel2 /\ w[2] = a.facts /\ w[3] = a.unresolved
      BY <2>3
    <2> QED
      BY <1>4, <2>5, <2>6, <2>7, FactAccounts
  <1>11. CASE q.intent = "trajectory"
    <2>1. PICK o : o = OrderTransitions(Trajectory(sel, q.cutoff, C), C)
      OBVIOUS
    <2>2. /\ p.transitions = o /\ p.unresolved = s.unresolved
          /\ gaps = StateGaps(q, S, <<s>>, {sel})
      BY <1>3, <1>5, <1>8, <1>11, <2>1 DEF Execute, ExecuteTrajectory, TrajectoryPayload
    <2>3. w = <<sel, FactsShown(o), s.unresolved>>
      BY <1>1, <1>3, <1>4, <1>11, <2>2 DEF Reported, FactsShown
    <2>4. 1 \in DOMAIN <<s>>
      OBVIOUS
    <2>5. \/ Settles(GroupOf(sel, q.cutoff, C, c.key), c.value)
          \/ \E u \in s.unresolved : \E f \in u.candidates : f.key = c.key /\ c.id \in f.ids
          \/ \E g \in gaps : GapFor(g, sel, c)
      BY <1>2, <1>3, <1>5, <1>6, <1>7, <1>8, <2>2, <2>4, Accounted
    <2>6. w[1] = sel /\ w[2] = FactsShown(o) /\ w[3] = s.unresolved
      BY <2>3
    <2>7. CASE Settles(GroupOf(sel, q.cutoff, C, c.key), c.value)
      <3>1. outset = {f.value : f \in FactsOf(Summary(JustBefore(sel.start), q.cutoff, C), c.key)}
        BY <1>1, <1>5, <2>6
      <3>2. \/ \E f \in FactsShown(o) : f.key = c.key /\ f.value = c.value
            \/ (\A f \in FactsShown(o) : f.key # c.key) /\ outset = {c.value}
        BY <1>6, <1>7, <1>11, <2>1, <2>7, <3>1, SettledIsShown
      <3>3. CASE \E f \in FactsShown(o) : f.key = c.key /\ f.value = c.value
        BY <1>4, <2>6, <3>3, FactAccounts
      <3>4. CASE (\A f \in FactsShown(o) : f.key # c.key) /\ outset = {c.value}
        BY <1>1, <1>11, <2>6, <3>4 DEF AccountsFor
      <3> QED
        BY <3>2, <3>3, <3>4
    <2>8. CASE ~Settles(GroupOf(sel, q.cutoff, C, c.key), c.value)
      BY <1>4, <2>5, <2>6, <2>8, FactAccounts
    <2> QED
      BY <2>7, <2>8
  <1> QED
    BY <1>5, <1>9, <1>10, <1>11

\* No retained observation disappears from an answer: it is cited, repeated, or
\* reported as outside the selection (summarizeGroups, BuildTrajectory,
\* addValidTimeGaps).
THEOREM EveryObservationIsAccounted == QuerySpec => []NothingIsLost
  <1>1. QueryInv => NothingIsLost
    <2> SUFFICES ASSUME QueryInv,
                        IsAnswer({"point-in-time", "trend-comparison", "trajectory"}),
                        NEW c \in Candidates, NEW w \in Reported, c.status # "rejected"
                 PROVE  AccountsFor(w, c, answer.result.gaps,
                          {f.value : f \in FactsOf(Summary(JustBefore(w[1].start), Asked.cutoff,
                                                           Candidates), c.key)})
      BY DEF NothingIsLost, AccountsFor
    <2> QED
      BY AnswerAccounts
  <1> QED
    BY <1>1, QueryInvHolds, PTL
=============================================================================

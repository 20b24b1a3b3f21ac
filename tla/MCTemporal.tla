------------------------------- MODULE MCTemporal --------------------------------
(* Both halves of a query on small instances: how it reads the store while   *)
(* writers commit (TemporalSnapshot), and what the service makes of what it   *)
(* read (TemporalQuery).  A behaviour plays one of the two scenes.            *)
EXTENDS TemporalSnapshot, TemporalQuery

CONSTANTS Scenes, e1, e2, e3, text, m1, m2, o1, s1, s2, p1, w1, w2, r1

VARIABLE scene

MCInit == scene \in Scenes /\ Init /\ QueryInit

MCNext ==
  \/ scene = "read" /\ Next /\ UNCHANGED <<scene, recorded, answer>>
  \/ scene = "evaluate" /\ QueryNext /\ UNCHANGED <<scene, store, clock, writer, reader>>

MCSpec == MCInit /\ [][MCNext]_<<scene, store, clock, writer, reader, recorded, answer>>

-----------------------------------------------------------------------------
(* Reading: one extraction of one observation.                             *)

\* The adapter also takes observations with a direct entity term.
MCSubject == [o \in Observations |-> e1]
MCObject == [o \in Observations |-> m1]
\* What extraction writes: both terms are mentions.
MCMentionSubject == [o \in Observations |-> m1]
MCMentionObject == [o \in Observations |-> m2]
MCPredicateOf == [o \in Observations |-> p1]
MCSpansOf == [o \in Observations |-> {s1}]
MCRuns == {{o1}}

MCQuery(es, m, ps, T) == [entities |-> es, match |-> m, predicates |-> ps, cutoff |-> T]
MCQueries == {MCQuery({e1}, "any", {}, Current), MCQuery({e1}, "any", {p1}, 1)}
MCAnyQueries == {MCQuery({e1, e2}, "any", {}, Current)}

-----------------------------------------------------------------------------
(* Evaluating: observations about e1 around [2, 4) and [2, 5).             *)

X(kind, s, e) == [kind |-> kind, start |-> s, end |-> e]
MCExtents(id) ==
  IF id = 1 THEN {X("unknown", 0, 0), X("instant", 3, 0), X("interval", 1, 3), X("interval", 2, 4),
                  X("window", 2, 4)}
            ELSE {X("instant", 3, 0), X("interval", 1, 3), X("interval", 3, 0), X("interval", 0, 2)}

MCRow(id, o, x, st, sup, con, ql) ==
  [id |-> id, subject |-> e1, predicate |-> IF id = 7 THEN CausalPredicate ELSE p1, object |-> o,
   extent |-> x, status |-> st, recorded |-> 1 + (id % 2), supporting |-> sup,
   contradicting |-> con, qualification |-> ql]

MCWhole == X("interval", 2, 4)
MCObserved ==
  UNION {{MCRow(i, o, x, "asserted", {s1}, {}, "qualified") : o \in {e2, text}, x \in MCExtents(i)} :
           i \in {1, 2}}
  \cup {MCRow(3, text, x, "hypothesized", {s2}, {}, "qualified") : x \in {MCWhole, X("window", 2, 4)}}
  \cup {MCRow(4, o, MCWhole, "asserted", {}, {s2}, "qualified") : o \in {e2, text}}
  \cup {MCRow(5, e2, MCWhole, "rejected", {s1}, {s2}, "qualified")}
  \cup {MCRow(6, text, MCWhole, "asserted", {s1}, {}, ql) :
          ql \in {"unresolved-mention", "authority-excluded"}}
  \cup {MCRow(7, o, x, "asserted", {s1}, {}, "qualified") :
          o \in {e2, text}, x \in {MCWhole, X("unknown", 0, 0)}}

Sel(k, s, e, l) == [kind |-> k, start |-> s, end |-> e, label |-> l]
MCRequest(i, es, m, ps, sels, T, n) ==
  [intent |-> i, entities |-> es, match |-> m, predicates |-> ps, selections |-> sels,
   cutoff |-> T, limit |-> n]
P1 == Sel("point", 3, 0, "p1")
W1 == Sel("window", 2, 4, "w1")
W2 == Sel("window", 3, 5, "w2")
\* The last three are refused, and find no e3.
MCRequests ==
  {MCRequest("point-in-time", {e1}, "all", {}, <<P1>>, Current, 0),
   MCRequest("trend-comparison", {e1}, "any", {p1}, <<W1, W2>>, Current, 0),
   MCRequest("trajectory", {e1, e2}, "any", {}, <<Sel("window", 2, 5, "w1")>>, Current, 3),
   MCRequest("trajectory", {e1}, "all", {}, <<Sel("window", 1, 5, "w1")>>, 1, 1),
   MCRequest("causal-chain", {e1}, "any", {CausalPredicate}, <<W1>>, Current, 2),
   MCRequest("trend-comparison", {e1}, "any", {p1}, <<W2, W1>>, Current, 0),
   MCRequest("causal-chain", {e1}, "any", {}, <<W1>>, Current, 2),
   MCRequest("point-in-time", {e1, e3}, "any", {}, <<P1>>, Current, 0)}
=============================================================================

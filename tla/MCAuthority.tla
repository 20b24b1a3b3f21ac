----------------------------- MODULE MCAuthority ------------------------------
(* AuthorityTx on a small instance.                                        *)
EXTENDS AuthorityTx, TLC

CONSTANTS d1, d2, d3, t1, t2, c1, c2, c3, b1

MCDecision(t, a, s) == [target |-> t, body |-> b1, authority |-> a, supersedes |-> s]

MCInitial(i, t, a) == [id |-> i, decision |-> MCDecision(t, a, Null)]
MCCorrects(i, t, a, s) == [id |-> i, decision |-> MCDecision(t, a, s)]

\* Competing initial decisions of t1, the first of their IDs used on t2, and
\* corrections of either, by a reviewer and by automation, under one more ID.
MCCommand ==
  {MCInitial(d1, t1, "automatic"), MCInitial(d2, t1, "reviewer"), MCInitial(d1, t2, "reviewer"),
   MCCorrects(d3, t1, "reviewer", d1), MCCorrects(d3, t1, "automatic", d2)}
=============================================================================

------------------------------- MODULE MCReview -------------------------------
(* Review on small instances.                                              *)
EXTENDS Review, TLC

CONSTANTS p1, p2, m1, s1, s2, e1, e2, n1, v1, v2

MCBody == [entity : Entity \cup {Null}, email : Email \cup {Null}]
MCEntityOf == [s \in Subject |-> IF s = s1 THEN e1 ELSE e2]
MCOneVersion == [p \in Target |-> v1]
MCTwoVersions == [p \in Target |-> IF p = p1 THEN v1 ELSE v2]
MCSameEmail == [p \in Target |-> m1]
MCLockKey == [k \in Authorities |-> CASE k = m1 -> 1 [] k = s1 -> 2 [] OTHER -> 3]
===============================================================================

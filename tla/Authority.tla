------------------------------ MODULE Authority -------------------------------
(***************************************************************************)
(* The append-only authority that resolution and admission share: each     *)
(* target has a chain of decisions, a correction names the decision it     *)
(* supersedes, and the decision nothing supersedes is the effective one.   *)
(* This module is what the two tables promise; AuthorityTx is how the      *)
(* transactions of AppendResolutionDecision and AppendAdmissionDecision    *)
(* keep the promise.                                                       *)
(***************************************************************************)
CONSTANTS
  Target,      \* resolution proposals, or admission targets
  DecisionId,  \* decision IDs a caller may use
  Body,        \* what a decision says: outcome, entity, reason, aliases, time
  Null         \* SQL NULL, or no row

AuthorityKind == {"automatic", "policy", "reviewer"}

Decision == [target : Target, body : Body, authority : AuthorityKind,
             supersedes : DecisionId \cup {Null}]

ASSUME NullAssumption == Null \notin DecisionId \cup Decision

VARIABLE decisions   \* [DecisionId -> Decision or Null]: the decisions table

Stored == {i \in DecisionId : decisions[i] # Null}

Initial(i) == decisions[i].supersedes = Null

\* loadEffective...DecisionValue: the target's decisions without a successor.
Effective(t) == {i \in Stored : /\ decisions[i].target = t
                                /\ \A j \in Stored : decisions[j].supersedes # i}

\* Mutant: any decision may be superseded, of whatever target.
SucceedsAnyPredecessor(d) ==
  \/ d.supersedes = Null /\ Effective(d.target) = {}
  \/ d.supersedes \in Stored /\ d.authority = "reviewer"

\* Mutant: corrections do not need a reviewer.
SucceedsWithoutReviewer(d) ==
  \/ d.supersedes = Null /\ Effective(d.target) = {}
  \/ d.supersedes \in Effective(d.target)

\* The switch over the effective decision: an initial decision needs an
\* undecided target, a correction the effective predecessor and a reviewer.
Succeeds(d) ==
  \/ d.supersedes = Null /\ Effective(d.target) = {}
  \/ d.supersedes \in Effective(d.target) /\ d.authority = "reviewer"

AppendRow(i, d) ==
  /\ decisions[i] = Null
  /\ Succeeds(d)
  /\ decisions' = [decisions EXCEPT ![i] = d]

AuthorityInit == decisions = [i \in DecisionId |-> Null]

AuthorityNext == \E i \in DecisionId, d \in Decision : AppendRow(i, d)

AuthoritySpec == AuthorityInit /\ [][AuthorityNext]_decisions

-----------------------------------------------------------------------------
AuthorityTypeOK == decisions \in [DecisionId -> Decision \cup {Null}]

\* Two effective decisions would make every reader's answer depend on the row
\* order; none at all would reopen a decided target.
OneEffective ==
  \A t \in Target :
    (\E i \in Stored : decisions[i].target = t) => \E i \in DecisionId : Effective(t) = {i}

\* No branch: a target has one initial decision, a decision one successor,
\* and a correction stays on its predecessor's target.
OneChain ==
  \A i, j \in Stored :
    /\ Initial(i) /\ Initial(j) /\ decisions[i].target = decisions[j].target => i = j
    /\ ~Initial(i) /\ decisions[i].supersedes = decisions[j].supersedes => i = j
    /\ ~Initial(i) => /\ decisions[i].supersedes \in Stored
                      /\ decisions[decisions[i].supersedes].target = decisions[i].target

\* Concurrent appends, retries and corrections leave each target one history
\* with one effective end (resolution_decisions, admission_decisions).
SingleHistory == OneEffective /\ OneChain

\* A reviewer's effective decision is replaced only by another reviewer's, and
\* a decided target stays decided: automatic matches never win over a person.
ReviewerIsFinal ==
  [][\A i \in Stored : /\ i \in Effective(decisions[i].target)
                       /\ decisions[i].authority = "reviewer"
        => \E j \in Effective(decisions[i].target)' :
             (decisions[j].authority = "reviewer")']_decisions

=============================================================================

------------------------------- MODULE Review ---------------------------------
(***************************************************************************)
(* Reviewers and the directory worker over the resolution authority: who a *)
(* mention stands for is decided by a person (internal/app/review.go,      *)
(* adapters/postgres/review.go) or, on an exact address, by a directory    *)
(* match (internal/directory, adapters/postgres/directory.go).  A caller   *)
(* reads first without locks and then runs one transaction, here statement *)
(* by statement wherever another caller can commit in between.             *)
(*                                                                         *)
(* The proposals are those of one document; a subject is an account of the *)
(* directory provider and has one snapshot of its profile.                 *)
(***************************************************************************)
EXTENDS Authority, Integers, FiniteSets

CONSTANTS
  Worker, Reviewer,  \* processes: enrichment, review commands
  Email, Subject, Entity,
  Version,           \* versions of the document
  VersionOf,         \* [Target -> Version]
  EmailOf,           \* [Target -> Email or Null]: the address its lookup asks for
  EntityOf,          \* [Subject -> Entity]: the entity ID derived from a subject
  LockKey            \* [Authorities -> Nat]: the keys of the advisory locks, in order

Actor == Worker \cup Reviewer
Authorities == Email \cup Subject

ASSUME BodyAssumption ==
  Body = [entity : Entity \cup {Null}, email : Email \cup {Null}]
ASSUME DataAssumption ==
  /\ VersionOf \in [Target -> Version]
  /\ EmailOf \in [Target -> Email \cup {Null}]
  /\ EntityOf \in [Subject -> Entity]
  /\ \A s, r \in Subject : EntityOf[s] = EntityOf[r] => s = r
  /\ Null \notin Entity \cup Authorities \cup Actor \cup Version \cup Target
ASSUME LockKeyAssumption ==
  /\ LockKey \in [Authorities -> Nat]
  /\ \A k, l \in Authorities : LockKey[k] = LockKey[l] => k = l

VARIABLES
  current,    \* the document's current version
  entities,   \* rows of stacks_core.entities
  proof,      \* [DecisionId -> Subject or Null]: the decision's directory link
  staged,     \* directory candidates: <<proposal, subject>>
  lock,       \* advisory locks of proposals, addresses and subjects
  shared,     \* callers that hold FOR SHARE on the document
  batch,      \* what each worker has loaded for its loop
  tx          \* each caller's lookup and transaction

vars == <<decisions, current, entities, proof, staged, lock, shared, batch, tx>>
data == <<decisions, current, entities, proof, staged>>

Op == {"persist", "decide", "correct", "create", "candidate"}

Phase == {"idle", "verified", "proposal", "eligibility", "authorities", "providerOwners",
          "commit"}

NoTx == [pc |-> "idle", op |-> "decide", proposal |-> Null, entity |-> Null, email |-> Null,
         evidence |-> FALSE, found |-> {}, match |-> Null, owner |-> Null, supersedes |-> Null,
         emailOwners |-> {}, providerOwners |-> {}]

TxState == [pc : Phase, op : Op, proposal : Target \cup {Null}, entity : Entity \cup {Null},
            email : Email \cup {Null}, evidence : BOOLEAN, found : SUBSET Subject,
            match : Subject \cup {Null}, owner : Entity \cup {Null},
            supersedes : DecisionId \cup {Null}, emailOwners : SUBSET Entity,
            providerOwners : SUBSET Entity]

NoBatch == [pc |-> "idle", work |-> {}, owners |-> [m \in Email |-> {}],
            links |-> [s \in Subject |-> {}]]

BatchState == [pc : {"idle", "snapshots", "links", "searching"}, work : SUBSET Target,
               owners : [Email -> SUBSET Entity], links : [Subject -> SUBSET Entity]]

Init ==
  /\ AuthorityInit
  /\ current \in Version
  /\ entities = {}
  /\ proof = [i \in DecisionId |-> Null]
  /\ staged = {}
  /\ lock = [k \in Target \cup Authorities |-> Null]
  /\ shared = {}
  /\ batch = [w \in Worker |-> NoBatch]
  /\ tx = [a \in Actor |-> NoTx]

-----------------------------------------------------------------------------
(* What the queries read.                                                  *)

\* reviewerEligibleProposalsQuery: the run is completed and admitted and its
\* version is the current one.  Only the last can change.
Reviewable(p) == VersionOf[p] = current

EffectiveAccepted(i) ==
  /\ i \in Stored
  /\ decisions[i].body.entity # Null
  /\ \A j \in Stored : decisions[j].supersedes # i

EmailOwners(m) ==
  {decisions[i].body.entity : i \in {j \in DecisionId : EffectiveAccepted(j)
                                                       /\ decisions[j].body.email = m}}

ProviderOwners(s) ==
  {decisions[i].body.entity : i \in {j \in DecisionId : EffectiveAccepted(j) /\ proof[j] = s}}

\* conflictingDirectoryLink.
ConflictingLink(owners, linked) == linked # {} /\ linked # owners

\* DirectoryPolicy.Evaluate: the one profile that may be accepted at once, with
\* the entity that owns the address, or Null for a new person.  Trusted: the
\* address is source-bound or from a reviewer, the profile a domain profile.
Matches(email, found, trusted, owners, linked) ==
  {s \in found : /\ email # Null /\ found = {s} /\ trusted
                 /\ Cardinality(owners) \leq 1
                 /\ ~ConflictingLink(owners, linked[s])}

MatchOf(matches)          == IF matches = {} THEN Null ELSE CHOOSE s \in matches : TRUE
OwnerOf(matches, owners)  == IF matches = {} \/ owners = {} THEN Null
                             ELSE CHOOSE e \in owners : TRUE

\* chooseDirectoryAuthorityEntity: the entity all sources agree on, if any.
Agreed(t) ==
  {e \in Entity :
     \/ t.emailOwners = {e} /\ t.providerOwners = {e}
     \/ t.emailOwners = {e} /\ t.providerOwners = {} /\ t.owner \in {Null, e}
     \/ /\ t.emailOwners = {} /\ t.providerOwners = {}
        /\ t.owner = Null /\ e = EntityOf[t.match]}

-----------------------------------------------------------------------------
(* Locks and the end of a transaction.                                     *)

Release(a) ==
  /\ lock' = [k \in DOMAIN lock |-> IF lock[k] = a THEN Null ELSE lock[k]]
  /\ shared' = shared \ {a}

\* Mutant: the loop does not notice that its last mention is done.
WithoutOnly(b, p) == [b EXCEPT !.work = @ \ {p}]

\* The loop of Enrich without a mention: it ends with its last one.
Without(b, p) == IF b.work \subseteq {p} THEN NoBatch ELSE [b EXCEPT !.work = @ \ {p}]

\* The loop goes on with the next mention, whatever became of this one.
NextMention(a) ==
  batch' = [w \in Worker |-> IF w = a THEN Without(batch[w], tx[a].proposal) ELSE batch[w]]

End(a) == tx' = [tx EXCEPT ![a] = NoTx] /\ Release(a) /\ NextMention(a)

Rollback(a) == End(a) /\ UNCHANGED data

Goto(a, pc) == tx' = [tx EXCEPT ![a].pc = pc]

Begin(a, t) == tx[a].pc = "idle" /\ tx' = [tx EXCEPT ![a] = t]

\* A bound: an unused decision row is left for every running transaction.
Room ==
  Cardinality(DecisionId \ Stored) > Cardinality({a \in Actor : tx[a].pc # "idle"})

-----------------------------------------------------------------------------
(* Enrich: the reads before the transaction.                               *)

\* LoadWork: undecided proposals of the current version; a recent lookup keeps
\* any of them out of the work.
LoadWork(w) ==
  /\ batch[w].pc = "idle"
  /\ \E work \in SUBSET {p \in Target : Reviewable(p) /\ Effective(p) = {}} :
       /\ work # {}
       /\ batch' = [batch EXCEPT ![w].pc = "snapshots", ![w].work = work]
  /\ UNCHANGED <<data, lock, shared, tx>>

\* LoadIdentityState: EntitySnapshots and then the links, each on its own.
LoadSnapshots(w) ==
  /\ batch[w].pc = "snapshots"
  /\ batch' = [batch EXCEPT ![w].pc = "links", ![w].owners = [m \in Email |-> EmailOwners(m)]]
  /\ UNCHANGED <<data, lock, shared, tx>>

LoadLinks(w) ==
  /\ batch[w].pc = "links"
  /\ batch' = [batch EXCEPT ![w].pc = "searching",
                            ![w].links = [s \in Subject |-> ProviderOwners(s)]]
  /\ UNCHANGED <<data, lock, shared, tx>>

\* The provider answers with any profiles, or not at all; the evaluation uses
\* the identity state of the whole loop.
Search(w) ==
  /\ batch[w].pc = "searching" /\ Room
  /\ \E p \in batch[w].work, found \in SUBSET Subject, trusted \in BOOLEAN :
       LET email == EmailOf[p]
           owners == IF email = Null THEN {} ELSE batch[w].owners[email]
           matches == Matches(email, found, trusted, owners, batch[w].links)
       IN  Begin(w, [NoTx EXCEPT !.pc = "proposal", !.op = "persist", !.proposal = p,
                                 !.email = email, !.evidence = TRUE, !.found = found,
                                 !.match = MatchOf(matches), !.owner = OwnerOf(matches, owners)])
  /\ UNCHANGED <<data, lock, shared, batch>>

-----------------------------------------------------------------------------
(* Review commands: the reads before the transaction.                      *)

\* AcceptReviewProposal, RejectReviewProposal.
Decide(r) ==
  /\ Room
  /\ \E p \in Target, e \in entities \cup {Null} :
       /\ Reviewable(p)
       /\ Begin(r, [NoTx EXCEPT !.pc = "proposal", !.op = "decide", !.proposal = p,
                                !.entity = e])
  /\ UNCHANGED <<data, lock, shared, batch>>

CorrectReviewDecision(r) ==
  /\ Room
  /\ \E i \in Stored, e \in entities :
       /\ Reviewable(decisions[i].target)
       /\ Begin(r, [NoTx EXCEPT !.pc = "proposal", !.op = "correct",
                                !.proposal = decisions[i].target, !.entity = e,
                                !.supersedes = i])
  /\ UNCHANGED <<data, lock, shared, batch>>

VerifyReviewerEmail(r) ==
  /\ Room
  /\ \E m \in Email, found \in SUBSET Subject, trusted \in BOOLEAN :
       LET linked == [s \in Subject |-> ProviderOwners(s)]
       IN  Begin(r, [NoTx EXCEPT !.pc = "verified", !.op = "create", !.email = m,
                                 !.evidence = TRUE, !.found = found,
                                 !.match = MatchOf(Matches(m, found, trusted, EmailOwners(m),
                                                           linked))])
  /\ UNCHANGED <<data, lock, shared, batch>>

\* Entity IDs are random: neither stored, nor in use, nor a subject's.
NewEntities ==
  Entity \ (entities \cup {EntityOf[s] : s \in Subject} \cup {tx[a].entity : a \in Actor})

\* With the verification of the address, or without address or verification.
CreateReviewPerson(r) ==
  /\ \E p \in Target, e \in NewEntities :
       /\ Reviewable(p)
       /\ \/ /\ tx[r].pc = "verified"
             /\ tx' = [tx EXCEPT ![r].pc = "proposal", ![r].proposal = p, ![r].entity = e]
          \/ \E m \in Email \cup {Null} :
               Room /\ Begin(r, [NoTx EXCEPT !.pc = "proposal", !.op = "create",
                                             !.proposal = p, !.entity = e, !.email = m])
  /\ UNCHANGED <<data, lock, shared, batch>>

AcceptDirectoryCandidate(r) ==
  /\ Room
  /\ \E p \in Target, s \in Subject, e \in entities :
       /\ Reviewable(p)
       /\ Begin(r, [NoTx EXCEPT !.pc = "proposal", !.op = "candidate", !.proposal = p,
                                !.entity = e, !.evidence = TRUE, !.found = {s}, !.match = s])
  /\ UNCHANGED <<data, lock, shared, batch>>

-----------------------------------------------------------------------------
(* The statements of the transactions.                                     *)

\* lockResolutionProposalAuthority.  Corrections and the worker do not ask
\* again whether the proposal may be reviewed.
LockProposal(a) ==
  /\ tx[a].pc = "proposal"
  /\ lock[tx[a].proposal] = Null
  /\ lock' = [lock EXCEPT ![tx[a].proposal] = a]
  /\ Goto(a, CASE tx[a].op = "persist" -> "authorities"
               [] tx[a].op = "correct" -> "commit"
               [] OTHER -> "eligibility")
  /\ UNCHANGED <<data, shared, batch>>

\* lockReviewerEligibleProposal: the document row FOR SHARE, then the query;
\* a directory candidate must be staged for the proposal.
Eligible(t) == Reviewable(t.proposal) /\ (t.op = "candidate" => <<t.proposal, t.match>> \in staged)

\* Mutant: the document row is read without FOR SHARE.
RequireEligibleUnlocked(a) ==
  /\ tx[a].pc = "eligibility"
  /\ \/ /\ Eligible(tx[a])
        /\ Goto(a, IF tx[a].evidence THEN "authorities" ELSE "commit")
        /\ UNCHANGED <<data, lock, shared, batch>>
     \/ ~Eligible(tx[a]) /\ Rollback(a)

RequireEligible(a) ==
  /\ tx[a].pc = "eligibility"
  /\ \/ /\ Eligible(tx[a])
        /\ shared' = shared \cup {a}
        /\ Goto(a, IF tx[a].evidence THEN "authorities" ELSE "commit")
        /\ UNCHANGED <<data, lock, batch>>
     \/ ~Eligible(tx[a]) /\ Rollback(a)

\* Mutant: only the subjects are locked.
MissingSubjects(a) == {k \in tx[a].found : lock[k] # a}

\* The addresses and subjects a transaction decides about and has not locked.
Missing(a) ==
  {k \in (tx[a].found \cup {tx[a].email}) \ {Null} : lock[k] # a}

\* Mutant: authorities are locked in the order they were found in.
LockAuthorityUnsorted(a) ==
  /\ tx[a].pc = "authorities"
  /\ \E k \in Missing(a) : lock[k] = Null /\ lock' = [lock EXCEPT ![k] = a]
  /\ UNCHANGED <<data, shared, batch, tx>>

\* lockDirectoryAuthorities sorts; lockDirectoryProviderAuthority has only one.
LockAuthority(a) ==
  /\ tx[a].pc = "authorities"
  /\ \E k \in Missing(a) :
       /\ \A l \in Missing(a) : LockKey[k] \leq LockKey[l]
       /\ lock[k] = Null
       /\ lock' = [lock EXCEPT ![k] = a]
  /\ UNCHANGED <<data, shared, batch, tx>>

AllLocked(a) == tx[a].pc = "authorities" /\ Missing(a) = {}

\* persistAutomaticDirectoryAuthority looks for owners only while the proposal
\* is undecided; without a match nobody does.
AsksOwners(t) == t.match # Null /\ (t.op = "persist" => Effective(t.proposal) = {})

AskNobody(a) ==
  /\ AllLocked(a) /\ ~AsksOwners(tx[a])
  /\ Goto(a, "commit")
  /\ UNCHANGED <<data, lock, shared, batch>>

ReadEmailOwners(a) ==
  /\ AllLocked(a) /\ AsksOwners(tx[a]) /\ tx[a].op = "persist"
  /\ tx' = [tx EXCEPT ![a].pc = "providerOwners", ![a].emailOwners = EmailOwners(tx[a].email)]
  /\ UNCHANGED <<data, lock, shared, batch>>

ReadProviderOwners(a) ==
  /\ tx[a].pc = "providerOwners"
  /\ tx' = [tx EXCEPT ![a].pc = "commit", ![a].providerOwners = ProviderOwners(tx[a].match)]
  /\ UNCHANGED <<data, lock, shared, batch>>

\* Mutant: the candidate's subject is not checked against its owners.
RequireProviderOwnerOfNobody(a) ==
  /\ AllLocked(a) /\ AsksOwners(tx[a]) /\ tx[a].op # "persist"
  /\ Goto(a, "commit")
  /\ UNCHANGED <<data, lock, shared, batch>>

\* requireDirectoryProviderOwner.
RequireProviderOwner(a) ==
  /\ AllLocked(a) /\ AsksOwners(tx[a]) /\ tx[a].op # "persist"
  /\ \/ /\ ProviderOwners(tx[a].match) \subseteq {tx[a].entity}
        /\ Goto(a, "commit")
        /\ UNCHANGED <<data, lock, shared, batch>>
     \/ ~(ProviderOwners(tx[a].match) \subseteq {tx[a].entity}) /\ Rollback(a)

\* Decision IDs are random, or derived from the proposal and the entity; the
\* row that is written next stands for either.
NextId == CHOOSE i \in DecisionId : decisions[i] = Null

AppendWithProof(d, s) ==
  /\ Stored # DecisionId    \* Room has left one
  /\ AppendRow(NextId, d)
  /\ proof' = [proof EXCEPT ![NextId] = s]

\* persistDirectoryReviewCandidates.
Stage(p, subjects) ==
  /\ staged' = staged \cup ({p} \X subjects)
  /\ entities' = entities \cup {EntityOf[s] : s \in subjects}
  /\ UNCHANGED <<decisions, proof, current>>

\* persistAutomaticDirectoryAuthority on an undecided proposal.
AcceptMatch(t, e) ==
  /\ AppendWithProof([target |-> t.proposal, body |-> [entity |-> e, email |-> t.email],
                      authority |-> "automatic", supersedes |-> Null], t.match)
  /\ entities' = entities \cup {e}
  /\ UNCHANGED <<staged, current>>

Persist(w) ==
  LET t == tx[w]
      effective == Effective(t.proposal)
      exactLink == \E i \in effective : decisions[i].authority = "automatic" /\ proof[i] = t.match
  IN  /\ t.pc = "commit" /\ t.op = "persist"
      /\ \/ t.match = Null /\ Stage(t.proposal, t.found)
         \/ t.match # Null /\ effective # {} /\ exactLink /\ UNCHANGED data
         \/ t.match # Null /\ effective # {} /\ ~exactLink /\ Stage(t.proposal, {t.match})
         \/ t.match # Null /\ effective = {} /\ Agreed(t) = {} /\ Stage(t.proposal, {t.match})
         \/ t.match # Null /\ effective = {} /\ \E e \in Agreed(t) : AcceptMatch(t, e)
      /\ End(w)

\* Mutant: a correction leaves the link behind.
ProofOfMatch(t) == t.match

\* loadReviewerDirectoryProof: an accepted correction takes the link over.
ProofOf(t) ==
  IF t.op = "correct" /\ t.entity # Null THEN proof[t.supersedes] ELSE t.match

\* AppendDecision, CreatePerson, AcceptDirectoryCandidate: the insert.
AppendDecision(r) ==
  LET t == tx[r]
      d == [target |-> t.proposal, body |-> [entity |-> t.entity, email |-> t.email],
            authority |-> "reviewer", supersedes |-> t.supersedes]
  IN  /\ t.pc = "commit" /\ t.op # "persist"
      /\ \/ /\ Succeeds(d)
            /\ AppendWithProof(d, ProofOf(t))
            /\ entities' = entities \cup ({t.entity} \ {Null})
            /\ UNCHANGED <<staged, current>>
            /\ End(r)
         \/ ~Succeeds(d) /\ Rollback(r)

\* An error of any statement; the worker goes on with its next mention.
Fail(a) == tx[a].pc # "idle" /\ Rollback(a)

\* The context of Enrich ends.
Cancel(w) ==
  /\ batch[w].pc # "idle"
  /\ batch' = [batch EXCEPT ![w] = NoBatch]
  /\ tx' = [tx EXCEPT ![w] = NoTx]
  /\ Release(w)
  /\ UNCHANGED data

\* SetCurrentDocumentVersion, by a sync: waits for the shared row locks.
SetCurrentDocumentVersion ==
  /\ shared = {}
  /\ current' \in Version \ {current}
  /\ UNCHANGED <<decisions, entities, proof, staged, lock, shared, batch, tx>>

Reads(a) ==
  \/ a \in Worker /\ (LoadWork(a) \/ LoadSnapshots(a) \/ LoadLinks(a) \/ Search(a))
  \/ a \in Reviewer /\ (\/ Decide(a) \/ CorrectReviewDecision(a) \/ VerifyReviewerEmail(a)
                         \/ CreateReviewPerson(a) \/ AcceptDirectoryCandidate(a))

Statements(a) ==
  \/ RequireEligible(a) \/ AskNobody(a) \/ ReadEmailOwners(a) \/ ReadProviderOwners(a)
  \/ RequireProviderOwner(a) \/ Persist(a) \/ AppendDecision(a)

Locks(a) == LockProposal(a) \/ LockAuthority(a)

Next ==
  \/ \E a \in Actor : Reads(a) \/ Locks(a) \/ Statements(a) \/ Fail(a)
  \/ \E w \in Worker : Cancel(w)
  \/ SetCurrentDocumentVersion

Spec == Init /\ [][Next]_vars

\* A connection executes its statements; advisory locks are granted in the order
\* of the waiters, so that none waits forever for a lock that is freed again.
Fairness == \A a \in Actor : WF_vars(Statements(a)) /\ SF_vars(Locks(a))

FairSpec == Spec /\ Fairness

-----------------------------------------------------------------------------
\* Types; a worker's loop lasts as long as it has mentions, and locks are held by
\* running transactions only.
TypeOK ==
  /\ AuthorityTypeOK
  /\ current \in Version
  /\ entities \subseteq Entity
  /\ proof \in [DecisionId -> Subject \cup {Null}]
  /\ staged \subseteq Target \X Subject
  /\ lock \in [Target \cup Authorities -> Actor \cup {Null}]
  /\ shared \subseteq Reviewer
  /\ batch \in [Worker -> BatchState]
  /\ tx \in [Actor -> TxState]
  /\ \A w \in Worker : batch[w].pc = "idle" <=> batch[w].work = {}
  /\ \A k \in DOMAIN lock : lock[k] # Null => tx[lock[k]].pc \notin {"idle", "verified"}

\* Two directory matches of one address name one entity: the worker never
\* takes one address for two people (persistAutomaticDirectoryAuthority).
AutomaticEmailHasOneOwner ==
  LET automatic == {i \in DecisionId : EffectiveAccepted(i)
                                         /\ decisions[i].authority = "automatic"}
  IN  \A i, j \in automatic : decisions[i].body.email = decisions[j].body.email
                                 => decisions[i].body.entity = decisions[j].body.entity

\* Whoever accepts a directory account for a proposal, reviewers and workers at
\* once: the decisions that nobody has corrected name one entity per account
\* (requireDirectoryProviderOwner, chooseDirectoryAuthorityEntity).
UncorrectedSubjectHasOneOwner ==
  LET linked == {i \in DecisionId : EffectiveAccepted(i) /\ Initial(i) /\ proof[i] # Null}
  IN  \A i, j \in linked : proof[i] = proof[j]
                              => decisions[i].body.entity = decisions[j].body.entity

\* The same without the exception, as the tests
\* TestCanonicalReviewerDirectoryProviderSubjectHasOneOwner... name it.
SubjectHasOneOwner == \A s \in Subject : Cardinality(ProviderOwners(s)) \leq 1

\* A correction moves an account to another entity but never frees it, so that
\* automation cannot give it away afterwards (loadReviewerDirectoryProof).
OwnedStaysOwned ==
  [][\A s \in Subject : ProviderOwners(s) # {} => ProviderOwners(s)' # {}]_vars

\* A first review decision is about the version that is current when it is
\* stored, although it was chosen on an earlier read
\* (lockReviewerEligibleProposal).
ReviewsAreOfCurrentVersion ==
  [][\A i \in Stored' \ Stored :
       decisions'[i].authority = "reviewer" /\ decisions'[i].supersedes = Null
         => VersionOf[decisions'[i].target] = current]_vars

\* Every transaction ends: workers and reviewers that lock several addresses
\* and accounts never wait for each other in a circle.
EventuallyIdle ==
  \A a \in Actor : tx[a].pc \notin {"idle", "verified"} ~> tx[a].pc = "idle"

=============================================================================

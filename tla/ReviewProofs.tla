----------------------------- MODULE ReviewProofs -----------------------------
(***************************************************************************)
(* Proofs about Review, for any number of workers, reviewers, proposals,   *)
(* addresses, accounts and versions: which owners of an address and of an  *)
(* account stay unique, that corrections keep an account owned, and that a *)
(* first review decision is about the current version.                     *)
(***************************************************************************)
EXTENDS Review, AuthorityProofs

\* An uncorrected decision that links its entity to a directory account.
Linked(i) == EffectiveAccepted(i) /\ Initial(i) /\ proof[i] # Null

AcceptedAutomatically(i) == EffectiveAccepted(i) /\ decisions[i].authority = "automatic"

SubjectWithin(s, owners) ==
  \A i \in DecisionId : Linked(i) /\ proof[i] = s => decisions[i].body.entity \in owners

EmailWithin(m, owners) ==
  \A i \in DecisionId : AcceptedAutomatically(i) /\ decisions[i].body.email = m
                          => decisions[i].body.entity \in owners

\* The shape of a command, whatever statement it is at.
WellFormed(a) ==
  /\ tx[a].pc # "idle" => a \in IF tx[a].op = "persist" THEN Worker ELSE Reviewer
  /\ tx[a].pc \notin {"idle", "verified"} => tx[a].proposal # Null
  /\ tx[a].pc = "verified" => tx[a].op = "create"
  /\ tx[a].pc = "eligibility" => tx[a].op # "persist"
  /\ tx[a].pc = "providerOwners" => tx[a].op = "persist" /\ tx[a].match # Null
  /\ tx[a].match # Null => tx[a].match \in tx[a].found /\ tx[a].evidence
  /\ tx[a].match # Null => tx[a].op \notin {"decide", "correct"}
  /\ tx[a].match # Null /\ tx[a].op = "persist" => tx[a].email # Null
  /\ tx[a].op = "correct" => tx[a].supersedes # Null /\ tx[a].entity # Null
  /\ tx[a].op # "correct" => tx[a].supersedes = Null

\* The locks on which the owners it has read depend.
HoldsLocks(a) ==
  tx[a].pc \in {"providerOwners", "commit"} /\ tx[a].match # Null
    => lock[tx[a].match] = a /\ (tx[a].op = "persist" => lock[tx[a].email] = a)

\* What it has read is still true of all that its locks protect.
StillEligible(a) ==
  tx[a].pc \in {"authorities", "commit"} /\ tx[a].op \notin {"persist", "correct"}
    => a \in shared /\ VersionOf[tx[a].proposal] = current

StillOwned(a) ==
  /\ tx[a].pc = "providerOwners" => EmailWithin(tx[a].email, tx[a].emailOwners)
  /\ tx[a].pc = "commit" /\ tx[a].match # Null =>
       IF tx[a].op # "persist" THEN SubjectWithin(tx[a].match, {tx[a].entity})
       ELSE \/ Effective(tx[a].proposal) # {}
            \/ /\ EmailWithin(tx[a].email, tx[a].emailOwners)
               /\ SubjectWithin(tx[a].match, tx[a].providerOwners)

CallerOK(a) == WellFormed(a) /\ HoldsLocks(a) /\ StillEligible(a) /\ StillOwned(a)

ReviewInv ==
  /\ TypeOK
  /\ SingleHistory
  /\ AutomaticEmailHasOneOwner
  /\ UncorrectedSubjectHasOneOwner
  /\ \A a \in Actor : CallerOK(a)

-----------------------------------------------------------------------------
(* What the steps do to the callers' records and locks.                    *)

\* The parts of a caller's record have their types.
LEMMA TxTyped ==
  ASSUME TypeOK, NEW a \in Actor
  PROVE  /\ tx[a] \in TxState
         /\ tx[a].pc \in Phase /\ tx[a].op \in Op /\ tx[a].evidence \in BOOLEAN
         /\ tx[a].proposal \in Target \cup {Null}
         /\ tx[a].entity \in Entity \cup {Null}
         /\ tx[a].email \in Email \cup {Null}
         /\ tx[a].found \subseteq Subject
         /\ tx[a].match \in Subject \cup {Null}
         /\ tx[a].owner \in Entity \cup {Null}
         /\ tx[a].supersedes \in DecisionId \cup {Null}
         /\ tx[a].emailOwners \subseteq Entity
         /\ tx[a].providerOwners \subseteq Entity
BY DEF TypeOK, TxState

\* A caller's record is replaced, and no other's.
LEMMA RecordMoves ==
  ASSUME TypeOK, NEW a \in Actor, NEW t \in TxState, tx' = [tx EXCEPT ![a] = t]
  PROVE  /\ tx' \in [Actor -> TxState]
         /\ tx'[a] = t
         /\ \A b \in Actor : b # a => tx'[b] = tx[b]
BY DEF TypeOK

\* A caller goes to its next statement.
LEMMA GotoMoves ==
  ASSUME TypeOK, NEW a \in Actor, NEW pc \in Phase, Goto(a, pc)
  PROVE  /\ tx' \in [Actor -> TxState]
         /\ \A b \in Actor : b # a => tx'[b] = tx[b]
         /\ tx'[a].pc = pc
         /\ tx'[a].op = tx[a].op /\ tx'[a].proposal = tx[a].proposal
         /\ tx'[a].entity = tx[a].entity /\ tx'[a].email = tx[a].email
         /\ tx'[a].evidence = tx[a].evidence /\ tx'[a].found = tx[a].found
         /\ tx'[a].match = tx[a].match /\ tx'[a].supersedes = tx[a].supersedes
         /\ tx'[a].emailOwners = tx[a].emailOwners
         /\ tx'[a].providerOwners = tx[a].providerOwners
BY DEF TypeOK, Goto, TxState

\* A caller that has nothing to do is a caller.
LEMMA NoTxTyped == NoTx \in TxState
BY DEF NoTx, TxState, Phase, Op

\* Releasing frees all that a caller holds and nothing that another holds.
LEMMA ReleaseMoves ==
  ASSUME TypeOK, NEW a \in Actor, Release(a)
  PROVE  /\ lock' \in [Target \cup Authorities -> Actor \cup {Null}]
         /\ \A k \in Target \cup Authorities :
              /\ lock'[k] # a
              /\ lock'[k] # Null => lock'[k] = lock[k]
              /\ \A b \in Actor : b # a /\ lock[k] = b => lock'[k] = b
         /\ shared' = shared \ {a}
<1>1. a # Null
  BY DataAssumption
<1> QED
  BY <1>1 DEF TypeOK, Release

\* The loop goes on or ends.
LEMMA NextMentionMoves ==
  ASSUME TypeOK, NEW a \in Actor, NextMention(a)
  PROVE  /\ batch' \in [Worker -> BatchState]
         /\ \A w \in Worker : batch'[w].pc = "idle" <=> batch'[w].work = {}
<1>1. NoBatch \in BatchState
  BY DEF NoBatch, BatchState
<1>2. ASSUME NEW w \in Worker
      PROVE  /\ batch'[w] \in BatchState
             /\ batch'[w].pc = "idle" <=> batch'[w].work = {}
  <2>1. /\ batch[w] \in BatchState
        /\ batch[w].pc = "idle" <=> batch[w].work = {}
    BY DEF TypeOK
  <2>2. batch'[w] \in {batch[w], Without(batch[w], tx[a].proposal)}
    BY DEF NextMention
  <2>3. CASE batch[w].work \subseteq {tx[a].proposal}
    <3>1. batch'[w] \in {batch[w], NoBatch}
      BY <2>2, <2>3 DEF Without
    <3>2. NoBatch.pc = "idle" /\ NoBatch.work = {}
      BY DEF NoBatch
    <3> QED
      BY <1>1, <2>1, <3>1, <3>2
  <2>4. CASE ~(batch[w].work \subseteq {tx[a].proposal})
    <3>1. batch[w].work # {} /\ batch[w].work \ {tx[a].proposal} # {}
      BY <2>4
    <3> QED
      BY <2>1, <2>2, <2>4, <3>1 DEF Without, BatchState
  <2> QED
    BY <2>3, <2>4
<1>3. batch' \in [Worker -> BatchState]
  <2> DEFINE next(w) == IF w = a THEN Without(batch[w], tx[a].proposal) ELSE batch[w]
  <2>1. batch' = [w \in Worker |-> next(w)]
    BY DEF NextMention
  <2>2. \A w \in Worker : next(w) \in BatchState
    BY <1>2, <2>1
  <2> HIDE DEF next
  <2> QED
    BY <2>1, <2>2
<1> QED
  BY <1>2, <1>3

-----------------------------------------------------------------------------
(* Steps that store no decision.                                           *)

\* What the lookups of owners say depends on the stored rows only.
LEMMA OwnersUnchanged ==
  ASSUME UNCHANGED <<decisions, proof>>
  PROVE  /\ SingleHistory => SingleHistory'
         /\ AuthorityTypeOK => AuthorityTypeOK'
         /\ AutomaticEmailHasOneOwner => AutomaticEmailHasOneOwner'
         /\ UncorrectedSubjectHasOneOwner => UncorrectedSubjectHasOneOwner'
<1>1. \A i \in DecisionId : EffectiveAccepted(i)' <=> EffectiveAccepted(i)
  BY DEF EffectiveAccepted, Stored
<1>2. AutomaticEmailHasOneOwner => AutomaticEmailHasOneOwner'
  BY <1>1 DEF AutomaticEmailHasOneOwner
<1>3. UncorrectedSubjectHasOneOwner => UncorrectedSubjectHasOneOwner'
  BY <1>1 DEF UncorrectedSubjectHasOneOwner, Initial
<1>4. SingleHistory => SingleHistory'
  BY DEF SingleHistory, OneEffective, OneChain, Effective, Stored, Initial
<1>5. AuthorityTypeOK => AuthorityTypeOK'
  BY DEF AuthorityTypeOK
<1> QED
  BY <1>2, <1>3, <1>4, <1>5

\* A caller that does not move keeps its locks and its share of the document.
LEMMA OtherHolds ==
  ASSUME ReviewInv, NEW b \in Actor, tx'[b] = tx[b],
         \A k \in Target \cup Authorities : lock[k] = b => lock'[k] = b,
         b \in shared => b \in shared' /\ current' = current
  PROVE  WellFormed(b)' /\ HoldsLocks(b)' /\ StillEligible(b)'
<1>1. CallerOK(b)
  BY DEF ReviewInv
<1>2. WellFormed(b)'
  BY <1>1 DEF CallerOK, WellFormed
<1>3. HoldsLocks(b)'
  <2>1. /\ tx[b].match \in Subject \cup {Null}
        /\ tx[b].email \in Email \cup {Null}
    BY TxTyped DEF ReviewInv
  <2>2. tx[b].match # Null /\ tx[b].op = "persist" => tx[b].email # Null
    BY <1>1 DEF CallerOK, WellFormed
  <2> QED
    BY <1>1, <2>1, <2>2 DEF CallerOK, HoldsLocks, Authorities
<1>4. StillEligible(b)'
  BY <1>1 DEF CallerOK, StillEligible
<1> QED
  BY <1>2, <1>3, <1>4

\* While no row is stored, it keeps what it has read of the owners too.
LEMMA OtherKeeps ==
  ASSUME ReviewInv, NEW b \in Actor, tx'[b] = tx[b], UNCHANGED <<decisions, proof>>,
         \A k \in Target \cup Authorities : lock[k] = b => lock'[k] = b,
         b \in shared => b \in shared' /\ current' = current
  PROVE  CallerOK(b)'
<1>1. CallerOK(b)
  BY DEF ReviewInv
<1>2. StillOwned(b)'
  BY <1>1 DEF CallerOK, StillOwned, EmailWithin, SubjectWithin, Linked, AcceptedAutomatically,
              EffectiveAccepted, Effective, Stored, Initial
<1> QED
  BY <1>2, OtherHolds DEF CallerOK

\* One caller moves; the locks it takes or frees are its own.
LEMMA MoveTyped ==
  ASSUME TypeOK, NEW a \in Actor, AuthorityTypeOK', UNCHANGED current,
         proof' \in [DecisionId -> Subject \cup {Null}],
         staged' \subseteq Target \X Subject, entities' \subseteq Entity,
         batch' \in [Worker -> BatchState],
         \A w \in Worker : batch'[w].pc = "idle" <=> batch'[w].work = {},
         tx' \in [Actor -> TxState], \A b \in Actor : b # a => tx'[b] = tx[b],
         lock' \in [Target \cup Authorities -> Actor \cup {Null}],
         \A k \in Target \cup Authorities :
           /\ lock'[k] \in {lock[k], a, Null}
           /\ tx'[a].pc \in {"idle", "verified"} => lock'[k] # a,
         shared' \subseteq Reviewer
  PROVE  TypeOK'
<1>1. \A k \in Target \cup Authorities :
        lock'[k] # Null => tx'[lock'[k]].pc \notin {"idle", "verified"}
  <2> SUFFICES ASSUME NEW k \in Target \cup Authorities, lock'[k] # Null
               PROVE  tx'[lock'[k]].pc \notin {"idle", "verified"}
    OBVIOUS
  <2>1. CASE lock'[k] = a
    BY <2>1
  <2>2. CASE lock'[k] # a
    <3>1. lock'[k] = lock[k] /\ lock[k] \in Actor /\ lock[k] # a
      BY <2>2 DEF TypeOK
    <3>2. tx[lock[k]].pc \notin {"idle", "verified"}
      BY <3>1, DataAssumption DEF TypeOK
    <3> QED
      BY <3>1, <3>2
  <2> QED
    BY <2>1, <2>2
<1> QED
  BY <1>1 DEF TypeOK

\* One caller moves and stores no decision: it has to show only for itself that
\* what it relies on is so.
LEMMA MoveKeeps ==
  ASSUME ReviewInv, NEW a \in Actor, UNCHANGED <<decisions, proof, current>>,
         staged' \subseteq Target \X Subject, entities' \subseteq Entity,
         batch' \in [Worker -> BatchState],
         \A w \in Worker : batch'[w].pc = "idle" <=> batch'[w].work = {},
         tx' \in [Actor -> TxState], \A b \in Actor : b # a => tx'[b] = tx[b],
         lock' \in [Target \cup Authorities -> Actor \cup {Null}],
         \A k \in Target \cup Authorities :
           /\ lock'[k] \in {lock[k], a, Null}
           /\ \A b \in Actor : b # a /\ lock[k] = b => lock'[k] = b
           /\ tx'[a].pc \in {"idle", "verified"} => lock'[k] # a,
         shared' \subseteq Reviewer, shared \ {a} \subseteq shared',
         CallerOK(a)'
  PROVE  ReviewInv'
<1>1. TypeOK'
  <2>1. TypeOK
    BY DEF ReviewInv
  <2>2. AuthorityTypeOK' /\ proof' \in [DecisionId -> Subject \cup {Null}]
    BY <2>1, OwnersUnchanged DEF TypeOK
  <2> QED
    BY <2>1, <2>2, MoveTyped
<1>2. \A b \in Actor : CallerOK(b)'
  <2> SUFFICES ASSUME NEW b \in Actor, b # a PROVE CallerOK(b)'
    OBVIOUS
  <2> QED
    BY OtherKeeps
<1>3. SingleHistory' /\ AutomaticEmailHasOneOwner' /\ UncorrectedSubjectHasOneOwner'
  BY OwnersUnchanged DEF ReviewInv
<1> QED
  BY <1>1, <1>2, <1>3 DEF ReviewInv

\* Owners are entities.
LEMMA OwnersTyped ==
  ASSUME TypeOK
  PROVE  /\ \A m : EmailOwners(m) \subseteq Entity
         /\ \A s : ProviderOwners(s) \subseteq Entity
         /\ \A i \in Stored : /\ i \in DecisionId
                              /\ decisions[i] \in Decision
                              /\ decisions[i].target \in Target
                              /\ decisions[i].body.entity \in Entity \cup {Null}
<1>1. \A i \in Stored : i \in DecisionId /\ decisions[i] \in Decision
  BY StoredIsDecision DEF TypeOK
<1>2. \A d \in Decision : d.target \in Target /\ d.body.entity \in Entity \cup {Null}
  BY BodyAssumption DEF Decision
<1>3. \A i \in DecisionId : EffectiveAccepted(i) => decisions[i].body.entity \in Entity
  BY <1>1, <1>2 DEF EffectiveAccepted
<1> QED
  BY <1>1, <1>2, <1>3 DEF EmailOwners, ProviderOwners

\* Loading work and identity state touches the worker's batch only.
LEMMA LoadsKeep ==
  ASSUME ReviewInv, NEW w \in Worker, LoadWork(w) \/ LoadSnapshots(w) \/ LoadLinks(w)
  PROVE  ReviewInv'
<1>1. TypeOK /\ w \in Actor
  BY DEF ReviewInv, Actor
<1>2. UNCHANGED <<data, lock, shared, tx>>
  BY DEF LoadWork, LoadSnapshots, LoadLinks
<1>3. PICK b \in BatchState : /\ batch' = [batch EXCEPT ![w] = b]
                             /\ b.pc # "idle" /\ b.work # {}
  <2>0. batch[w] \in BatchState /\ (batch[w].pc = "idle" <=> batch[w].work = {})
    BY <1>1 DEF TypeOK
  <2>1. CASE LoadWork(w)
    <3>1. PICK work \in SUBSET {p \in Target : Reviewable(p) /\ Effective(p) = {}} :
            /\ work # {}
            /\ batch' = [batch EXCEPT ![w].pc = "snapshots", ![w].work = work]
      BY <2>1 DEF LoadWork
    <3>2. work \subseteq Target
      OBVIOUS
    <3> DEFINE b == [batch[w] EXCEPT !.pc = "snapshots", !.work = work]
    <3>3. b \in BatchState /\ b.pc = "snapshots" /\ b.work = work
      BY <2>0, <3>2 DEF BatchState
    <3>4. batch' = [batch EXCEPT ![w] = b]
      BY <3>1, <1>1 DEF TypeOK
    <3> QED
      BY <3>1, <3>3, <3>4
  <2>2. CASE LoadSnapshots(w)
    <3> DEFINE owners == [m \in Email |-> EmailOwners(m)]
               b == [batch[w] EXCEPT !.pc = "links", !.owners = owners]
    <3>1. owners \in [Email -> SUBSET Entity]
      BY <1>1, OwnersTyped
    <3>2. batch' = [batch EXCEPT ![w] = b] /\ batch[w].pc = "snapshots"
      BY <2>2, <1>1 DEF TypeOK, LoadSnapshots
    <3> HIDE DEF owners
    <3>3. b \in BatchState /\ b.pc = "links" /\ b.work = batch[w].work
      BY <2>0, <3>1 DEF BatchState
    <3> QED
      BY <2>0, <3>2, <3>3
  <2>3. CASE LoadLinks(w)
    <3> DEFINE links == [s \in Subject |-> ProviderOwners(s)]
               b == [batch[w] EXCEPT !.pc = "searching", !.links = links]
    <3>1. links \in [Subject -> SUBSET Entity]
      BY <1>1, OwnersTyped
    <3>2. batch' = [batch EXCEPT ![w] = b] /\ batch[w].pc = "links"
      BY <2>3, <1>1 DEF TypeOK, LoadLinks
    <3> HIDE DEF links
    <3>3. b \in BatchState /\ b.pc = "searching" /\ b.work = batch[w].work
      BY <2>0, <3>1 DEF BatchState
    <3> QED
      BY <2>0, <3>2, <3>3
  <2> QED
    BY <2>1, <2>2, <2>3
<1>4. /\ batch' \in [Worker -> BatchState]
      /\ \A v \in Worker : batch'[v].pc = "idle" <=> batch'[v].work = {}
  BY <1>1, <1>3 DEF TypeOK
<1>5. CallerOK(w)'
  BY <1>1, <1>2, OtherKeeps DEF data
<1>6. \A k \in Target \cup Authorities : tx'[w].pc \in {"idle", "verified"} => lock'[k] # w
  BY <1>1, <1>2, DataAssumption DEF TypeOK
<1> QED
  BY <1>1, <1>2, <1>4, <1>5, <1>6, MoveKeeps DEF data, TypeOK

\* A command begins, or has been looked up: it has no lock and has read nothing
\* on which it will rely.
LEMMA BeginKeeps ==
  ASSUME ReviewInv, NEW a \in Actor, NEW t \in TxState, tx' = [tx EXCEPT ![a] = t],
         tx[a].pc \in {"idle", "verified"}, t.pc \in {"proposal", "verified"},
         UNCHANGED <<data, lock, shared, batch>>, WellFormed(a)'
  PROVE  ReviewInv'
<1>1. TypeOK
  BY DEF ReviewInv
<1>2. tx' \in [Actor -> TxState] /\ tx'[a] = t /\ \A b \in Actor : b # a => tx'[b] = tx[b]
  BY <1>1, RecordMoves
<1>3. \A k \in Target \cup Authorities : lock[k] # a
  BY <1>1, DataAssumption DEF TypeOK
<1>4. CallerOK(a)'
  BY <1>2 DEF CallerOK, HoldsLocks, StillEligible, StillOwned
<1> QED
  BY <1>1, <1>2, <1>3, <1>4, MoveKeeps DEF data, TypeOK

\* A match is one of the profiles found, for an address.
LEMMA MatchFound ==
  ASSUME NEW email, NEW found \in SUBSET Subject, NEW trusted, NEW owners \in SUBSET Entity,
         NEW linked
  PROVE  LET matches == Matches(email, found, trusted, owners, linked)
         IN  /\ MatchOf(matches) \in Subject \cup {Null}
             /\ MatchOf(matches) # Null => MatchOf(matches) \in found /\ email # Null
             /\ OwnerOf(matches, owners) \in Entity \cup {Null}
<1> DEFINE matches == Matches(email, found, trusted, owners, linked)
<1>1. \A s \in matches : s \in found /\ email # Null
  BY DEF Matches
<1> HIDE DEF matches
<1>2. matches = {} => MatchOf(matches) = Null /\ OwnerOf(matches, owners) = Null
  BY DEF MatchOf, OwnerOf
<1>3. matches # {} => MatchOf(matches) \in matches
  BY DEF MatchOf
<1>4. owners # {} => (CHOOSE e \in owners : TRUE) \in owners
  OBVIOUS
<1>5. OwnerOf(matches, owners) \in Entity \cup {Null}
  BY <1>4 DEF OwnerOf
<1> QED
  BY <1>1, <1>2, <1>3, <1>5 DEF matches

\* The first statement after a lookup.
LEMMA SearchKeeps ==
  ASSUME ReviewInv, NEW w \in Worker, Search(w)
  PROVE  ReviewInv'
<1>1. TypeOK /\ w \in Actor
  BY DEF ReviewInv, Actor
<1>2. batch[w].work \subseteq Target /\ batch[w].owners \in [Email -> SUBSET Entity]
  BY <1>1 DEF TypeOK, BatchState
<1>3. PICK p \in batch[w].work, found \in SUBSET Subject, trusted \in BOOLEAN :
        LET email == EmailOf[p]
            owners == IF email = Null THEN {} ELSE batch[w].owners[email]
            matches == Matches(email, found, trusted, owners, batch[w].links)
        IN  Begin(w, [NoTx EXCEPT !.pc = "proposal", !.op = "persist", !.proposal = p,
                                  !.email = email, !.evidence = TRUE, !.found = found,
                                  !.match = MatchOf(matches),
                                  !.owner = OwnerOf(matches, owners)])
  BY DEF Search
<1> DEFINE email == EmailOf[p]
           owners == IF email = Null THEN {} ELSE batch[w].owners[email]
           matches == Matches(email, found, trusted, owners, batch[w].links)
           match == MatchOf(matches)
           owner == OwnerOf(matches, owners)
           t == [NoTx EXCEPT !.pc = "proposal", !.op = "persist", !.proposal = p,
                             !.email = email, !.evidence = TRUE, !.found = found,
                             !.match = match, !.owner = owner]
<1>4. p \in Target /\ email \in Email \cup {Null}
  BY <1>2, DataAssumption
<1>5. owners \in SUBSET Entity
  BY <1>2, <1>4
<1>6. /\ match \in Subject \cup {Null} /\ owner \in Entity \cup {Null}
      /\ match # Null => match \in found /\ email # Null
  <2> HIDE DEF email, owners
  <2> QED
    BY <1>5, MatchFound
<1>7. tx' = [tx EXCEPT ![w] = t] /\ tx[w].pc = "idle"
  BY <1>3 DEF Begin
<1>7a. p # Null
  BY <1>4, DataAssumption
<1> HIDE DEF email, match, owner
<1>8. t \in TxState /\ t.pc = "proposal"
  BY <1>4, <1>6 DEF NoTx, TxState, Phase, Op
<1>9. WellFormed(w)'
  <2>1. tx'[w] = t
    BY <1>1, <1>7, <1>8, RecordMoves
  <2>2. /\ t.op = "persist" /\ t.proposal = p /\ t.email = email /\ t.evidence
        /\ t.found = found /\ t.match = match /\ t.supersedes = Null
    BY DEF NoTx
  <2> HIDE DEF t
  <2> QED
    BY <1>6, <1>7a, <1>8, <2>1, <2>2 DEF WellFormed
<1> HIDE DEF t
<1> QED
  BY <1>1, <1>7, <1>8, <1>9, BeginKeeps DEF Search

\* Accepting and rejecting.
LEMMA DecideKeeps ==
  ASSUME ReviewInv, NEW r \in Reviewer, Decide(r)
  PROVE  ReviewInv'
<1>1. TypeOK /\ r \in Actor
  BY DEF ReviewInv, Actor
<1>2. PICK p \in Target, e \in entities \cup {Null} :
        Begin(r, [NoTx EXCEPT !.pc = "proposal", !.op = "decide", !.proposal = p, !.entity = e])
  BY DEF Decide
<1> DEFINE t == [NoTx EXCEPT !.pc = "proposal", !.op = "decide", !.proposal = p, !.entity = e]
<1>3. tx' = [tx EXCEPT ![r] = t] /\ tx[r].pc = "idle"
  BY <1>2 DEF Begin
<1>4. e \in Entity \cup {Null} /\ p # Null
  BY <1>1, DataAssumption DEF TypeOK
<1>5. t \in TxState /\ t.pc = "proposal"
  BY <1>4 DEF NoTx, TxState, Phase, Op
<1>6. t.op = "decide" /\ t.proposal = p /\ t.match = Null /\ t.supersedes = Null
  BY DEF NoTx
<1> HIDE DEF t
<1>7. tx'[r] = t
  BY <1>1, <1>3, <1>5, RecordMoves
<1>8. WellFormed(r)'
  BY <1>4, <1>5, <1>6, <1>7 DEF WellFormed
<1> QED
  BY <1>1, <1>3, <1>5, <1>8, BeginKeeps DEF Decide

\* Correcting: the proposal is the predecessor's.
LEMMA CorrectKeeps ==
  ASSUME ReviewInv, NEW r \in Reviewer, CorrectReviewDecision(r)
  PROVE  ReviewInv'
<1>1. TypeOK /\ r \in Actor
  BY DEF ReviewInv, Actor
<1>2. PICK i \in Stored, e \in entities :
        Begin(r, [NoTx EXCEPT !.pc = "proposal", !.op = "correct",
                              !.proposal = decisions[i].target, !.entity = e,
                              !.supersedes = i])
  BY DEF CorrectReviewDecision
<1>3. i \in DecisionId /\ decisions[i].target \in Target /\ e \in Entity
  BY <1>1, OwnersTyped DEF TypeOK
<1>4. i # Null /\ decisions[i].target # Null /\ e # Null
  BY <1>3, NullAssumption, DataAssumption
<1> DEFINE p == decisions[i].target
           t == [NoTx EXCEPT !.pc = "proposal", !.op = "correct", !.proposal = p,
                             !.entity = e, !.supersedes = i]
<1>5. tx' = [tx EXCEPT ![r] = t] /\ tx[r].pc = "idle"
  BY <1>2 DEF Begin
<1>6. p \in Target /\ p # Null
  BY <1>3, <1>4
<1> HIDE DEF p
<1>7. t \in TxState /\ t.pc = "proposal"
  BY <1>3, <1>6 DEF NoTx, TxState, Phase, Op
<1>8. /\ t.op = "correct" /\ t.proposal = p /\ t.match = Null
      /\ t.supersedes = i /\ t.entity = e
  BY DEF NoTx
<1> HIDE DEF t
<1>9. tx'[r] = t
  BY <1>1, <1>5, <1>7, RecordMoves
<1>10. WellFormed(r)'
  BY <1>4, <1>6, <1>7, <1>8, <1>9 DEF WellFormed
<1> QED
  BY <1>1, <1>5, <1>7, <1>10, BeginKeeps DEF CorrectReviewDecision

\* The verification of a reviewer's address.
LEMMA VerifyKeeps ==
  ASSUME ReviewInv, NEW r \in Reviewer, VerifyReviewerEmail(r)
  PROVE  ReviewInv'
<1>1. TypeOK /\ r \in Actor
  BY DEF ReviewInv, Actor
<1>2. PICK m \in Email, found \in SUBSET Subject, trusted \in BOOLEAN :
        LET linked == [s \in Subject |-> ProviderOwners(s)]
        IN  Begin(r, [NoTx EXCEPT !.pc = "verified", !.op = "create", !.email = m,
                                  !.evidence = TRUE, !.found = found,
                                  !.match = MatchOf(Matches(m, found, trusted, EmailOwners(m),
                                                            linked))])
  BY DEF VerifyReviewerEmail
<1> DEFINE linked == [s \in Subject |-> ProviderOwners(s)]
           matches == Matches(m, found, trusted, EmailOwners(m), linked)
           match == MatchOf(matches)
           t == [NoTx EXCEPT !.pc = "verified", !.op = "create", !.email = m,
                             !.evidence = TRUE, !.found = found, !.match = match]
<1>3. match \in Subject \cup {Null} /\ (match # Null => match \in found)
  <2>1. EmailOwners(m) \in SUBSET Entity
    BY <1>1, OwnersTyped
  <2> HIDE DEF linked
  <2> QED
    BY <2>1, MatchFound
<1>4. tx' = [tx EXCEPT ![r] = t] /\ tx[r].pc = "idle"
  BY <1>2 DEF Begin
<1> HIDE DEF match
<1>5. t \in TxState /\ t.pc = "verified"
  BY <1>3 DEF NoTx, TxState, Phase, Op
<1>6. /\ t.op = "create" /\ t.match = match /\ t.found = found /\ t.evidence
      /\ t.supersedes = Null
  BY DEF NoTx
<1> HIDE DEF t
<1>7. tx'[r] = t
  BY <1>1, <1>4, <1>5, RecordMoves
<1>8. WellFormed(r)'
  BY <1>3, <1>5, <1>6, <1>7 DEF WellFormed
<1> QED
  BY <1>1, <1>4, <1>5, <1>8, BeginKeeps DEF VerifyReviewerEmail

\* Creating a person, with and without a verification.
LEMMA CreateKeeps ==
  ASSUME ReviewInv, NEW r \in Reviewer, CreateReviewPerson(r)
  PROVE  ReviewInv'
<1>1. TypeOK /\ r \in Actor
  BY DEF ReviewInv, Actor
<1>2. PICK p \in Target, e \in NewEntities :
        \/ /\ tx[r].pc = "verified"
           /\ tx' = [tx EXCEPT ![r].pc = "proposal", ![r].proposal = p, ![r].entity = e]
        \/ \E m \in Email \cup {Null} :
             Room /\ Begin(r, [NoTx EXCEPT !.pc = "proposal", !.op = "create",
                                           !.proposal = p, !.entity = e, !.email = m])
  BY DEF CreateReviewPerson
<1>3. p # Null /\ e \in Entity
  BY DataAssumption DEF NewEntities
<1>4. CASE tx[r].pc = "verified"
           /\ tx' = [tx EXCEPT ![r].pc = "proposal", ![r].proposal = p, ![r].entity = e]
  <2> DEFINE t == [tx[r] EXCEPT !.pc = "proposal", !.proposal = p, !.entity = e]
  <2>1. tx' = [tx EXCEPT ![r] = t]
    BY <1>1, <1>4 DEF TypeOK
  <2>2. tx[r] \in TxState /\ WellFormed(r)
    BY <1>1 DEF TypeOK, ReviewInv, CallerOK
  <2>3. t \in TxState /\ t.pc = "proposal"
    BY <1>3, <2>2 DEF TxState, Phase
  <2>4. /\ t.proposal = p /\ t.op = tx[r].op /\ t.match = tx[r].match
        /\ t.found = tx[r].found /\ t.evidence = tx[r].evidence
        /\ t.supersedes = tx[r].supersedes
    BY <2>2 DEF TxState
  <2> HIDE DEF t
  <2>5. tx'[r] = t
    BY <1>1, <2>1, <2>3, RecordMoves
  <2>6. WellFormed(r)'
    BY <1>3, <1>4, <2>2, <2>3, <2>4, <2>5 DEF WellFormed
  <2> QED
    BY <1>1, <1>4, <2>1, <2>3, <2>6, BeginKeeps DEF CreateReviewPerson
<1>5. CASE \E m \in Email \cup {Null} :
             Room /\ Begin(r, [NoTx EXCEPT !.pc = "proposal", !.op = "create",
                                           !.proposal = p, !.entity = e, !.email = m])
  <2>1. PICK m \in Email \cup {Null} :
          Begin(r, [NoTx EXCEPT !.pc = "proposal", !.op = "create", !.proposal = p,
                                !.entity = e, !.email = m])
    BY <1>5
  <2> DEFINE t == [NoTx EXCEPT !.pc = "proposal", !.op = "create", !.proposal = p,
                               !.entity = e, !.email = m]
  <2>2. tx' = [tx EXCEPT ![r] = t] /\ tx[r].pc = "idle"
    BY <2>1 DEF Begin
  <2>3. t \in TxState /\ t.pc = "proposal"
    BY <1>3 DEF NoTx, TxState, Phase, Op
  <2>4. t.proposal = p /\ t.op = "create" /\ t.match = Null /\ t.supersedes = Null
    BY DEF NoTx
  <2> HIDE DEF t
  <2>5. tx'[r] = t
    BY <1>1, <2>2, <2>3, RecordMoves
  <2>6. WellFormed(r)'
    BY <1>3, <2>3, <2>4, <2>5 DEF WellFormed
  <2> QED
    BY <1>1, <2>2, <2>3, <2>6, BeginKeeps DEF CreateReviewPerson
<1> QED
  BY <1>2, <1>4, <1>5

\* Accepting a directory candidate.
LEMMA CandidateKeeps ==
  ASSUME ReviewInv, NEW r \in Reviewer, AcceptDirectoryCandidate(r)
  PROVE  ReviewInv'
<1>1. TypeOK /\ r \in Actor
  BY DEF ReviewInv, Actor
<1>2. PICK p \in Target, s \in Subject, e \in entities :
        Begin(r, [NoTx EXCEPT !.pc = "proposal", !.op = "candidate", !.proposal = p,
                              !.entity = e, !.evidence = TRUE, !.found = {s}, !.match = s])
  BY DEF AcceptDirectoryCandidate
<1> DEFINE t == [NoTx EXCEPT !.pc = "proposal", !.op = "candidate", !.proposal = p,
                             !.entity = e, !.evidence = TRUE, !.found = {s}, !.match = s]
<1>3. tx' = [tx EXCEPT ![r] = t] /\ tx[r].pc = "idle"
  BY <1>2 DEF Begin
<1>4. e \in Entity /\ p # Null
  BY <1>1, DataAssumption DEF TypeOK
<1>5. t \in TxState /\ t.pc = "proposal"
  BY <1>4 DEF NoTx, TxState, Phase, Op
<1>6. /\ t.op = "candidate" /\ t.proposal = p /\ t.match = s /\ t.found = {s}
      /\ t.evidence /\ t.supersedes = Null
  BY DEF NoTx
<1> HIDE DEF t
<1>7. tx'[r] = t
  BY <1>1, <1>3, <1>5, RecordMoves
<1>8. WellFormed(r)'
  BY <1>4, <1>5, <1>6, <1>7 DEF WellFormed
<1> QED
  BY <1>1, <1>3, <1>5, <1>8, BeginKeeps DEF AcceptDirectoryCandidate

\* A transaction ends without a decision: whatever it staged, its locks are free.
LEMMA EndKeeps ==
  ASSUME ReviewInv, NEW a \in Actor, End(a), UNCHANGED <<decisions, proof, current>>,
         staged' \subseteq Target \X Subject, entities' \subseteq Entity
  PROVE  ReviewInv'
<1>1. TypeOK
  BY DEF ReviewInv
<1>2. tx' \in [Actor -> TxState] /\ tx'[a] = NoTx /\ \A b \in Actor : b # a => tx'[b] = tx[b]
  BY <1>1, NoTxTyped, RecordMoves DEF End
<1>3. Release(a) /\ NextMention(a)
  BY DEF End
<1>4. CallerOK(a)'
  BY <1>2 DEF NoTx, CallerOK, WellFormed, HoldsLocks, StillEligible, StillOwned
<1>5. shared' \subseteq Reviewer /\ shared \ {a} \subseteq shared'
  BY <1>1, <1>3, ReleaseMoves DEF TypeOK
<1>6. /\ lock' \in [Target \cup Authorities -> Actor \cup {Null}]
      /\ \A k \in Target \cup Authorities :
           /\ lock'[k] \in {lock[k], a, Null}
           /\ \A b \in Actor : b # a /\ lock[k] = b => lock'[k] = b
           /\ tx'[a].pc \in {"idle", "verified"} => lock'[k] # a
  BY <1>1, <1>3, ReleaseMoves
<1>7. /\ batch' \in [Worker -> BatchState]
      /\ \A w \in Worker : batch'[w].pc = "idle" <=> batch'[w].work = {}
  BY <1>1, <1>3, NextMentionMoves
<1> QED
  BY <1>2, <1>4, <1>5, <1>6, <1>7, MoveKeeps

LEMMA RollbackKeeps ==
  ASSUME ReviewInv, NEW a \in Actor, Rollback(a)
  PROVE  ReviewInv'
<1>1. staged' \subseteq Target \X Subject /\ entities' \subseteq Entity
  BY DEF Rollback, data, ReviewInv, TypeOK
<1> QED
  BY <1>1, EndKeeps DEF Rollback, data

\* The context of a worker ends.
LEMMA CancelKeeps ==
  ASSUME ReviewInv, NEW w \in Worker, Cancel(w)
  PROVE  ReviewInv'
<1>1. TypeOK /\ w \in Actor
  BY DEF ReviewInv, Actor
<1>2. tx' \in [Actor -> TxState] /\ tx'[w] = NoTx /\ \A b \in Actor : b # w => tx'[b] = tx[b]
  BY <1>1, NoTxTyped, RecordMoves DEF Cancel
<1>3. CallerOK(w)'
  BY <1>2 DEF NoTx, CallerOK, WellFormed, HoldsLocks, StillEligible, StillOwned
<1>4. shared' \subseteq Reviewer /\ shared \ {w} \subseteq shared'
  BY <1>1, ReleaseMoves DEF TypeOK, Cancel
<1>5. /\ lock' \in [Target \cup Authorities -> Actor \cup {Null}]
      /\ \A k \in Target \cup Authorities :
           /\ lock'[k] \in {lock[k], w, Null}
           /\ \A b \in Actor : b # w /\ lock[k] = b => lock'[k] = b
           /\ tx'[w].pc \in {"idle", "verified"} => lock'[k] # w
  BY <1>1, ReleaseMoves DEF Cancel
<1>6. /\ batch' \in [Worker -> BatchState]
      /\ \A v \in Worker : batch'[v].pc = "idle" <=> batch'[v].work = {}
  <2>1. NoBatch \in BatchState /\ NoBatch.pc = "idle" /\ NoBatch.work = {}
    BY DEF NoBatch, BatchState
  <2> QED
    BY <1>1, <2>1 DEF Cancel, TypeOK
<1>7. staged' \subseteq Target \X Subject /\ entities' \subseteq Entity
  BY <1>1 DEF Cancel, data, TypeOK
<1> QED
  BY <1>1, <1>2, <1>3, <1>4, <1>5, <1>6, <1>7, MoveKeeps DEF Cancel, data

\* A sync changes the current version while nobody shares the document row.
LEMMA VersionKeeps ==
  ASSUME ReviewInv, SetCurrentDocumentVersion
  PROVE  ReviewInv'
<1>1. TypeOK'
  BY DEF ReviewInv, TypeOK, SetCurrentDocumentVersion, AuthorityTypeOK
<1>2. \A b \in Actor : CallerOK(b)'
  BY OtherKeeps DEF SetCurrentDocumentVersion
<1>3. SingleHistory' /\ AutomaticEmailHasOneOwner' /\ UncorrectedSubjectHasOneOwner'
  BY OwnersUnchanged DEF ReviewInv, SetCurrentDocumentVersion
<1> QED
  BY <1>1, <1>2, <1>3 DEF ReviewInv

\* A statement of a running transaction that stores no decision and keeps all locks.
LEMMA StatementKeeps ==
  ASSUME ReviewInv, NEW a \in Actor, UNCHANGED <<data, batch>>,
         tx' \in [Actor -> TxState], \A b \in Actor : b # a => tx'[b] = tx[b],
         tx'[a].pc \notin {"idle", "verified"},
         \/ UNCHANGED lock
         \/ \E k \in Target \cup Authorities : lock[k] = Null /\ lock' = [lock EXCEPT ![k] = a],
         shared' \subseteq Reviewer, shared \subseteq shared', CallerOK(a)'
  PROVE  ReviewInv'
<1>1. TypeOK
  BY DEF ReviewInv
<1>2. /\ lock' \in [Target \cup Authorities -> Actor \cup {Null}]
      /\ \A k \in Target \cup Authorities :
           /\ lock'[k] \in {lock[k], a, Null}
           /\ \A b \in Actor : b # a /\ lock[k] = b => lock'[k] = b
  BY <1>1, DataAssumption DEF TypeOK
<1> QED
  BY <1>1, <1>2, MoveKeeps DEF TypeOK, data

\* The proposal's lock is taken; whether it may be reviewed is asked next.
LEMMA LockProposalKeeps ==
  ASSUME ReviewInv, NEW a \in Actor, LockProposal(a)
  PROVE  ReviewInv'
<1>1. TypeOK /\ WellFormed(a)
  BY DEF ReviewInv, CallerOK
<1>2. tx[a].pc = "proposal" /\ UNCHANGED <<data, shared, batch>>
  BY DEF LockProposal
<1>3. tx[a].proposal \in Target /\ lock[tx[a].proposal] = Null
      /\ lock' = [lock EXCEPT ![tx[a].proposal] = a]
  BY <1>1, <1>2, TxTyped DEF LockProposal, WellFormed
<1>4. PICK pc \in {"authorities", "commit", "eligibility"} :
        /\ Goto(a, pc)
        /\ pc = "commit" => tx[a].op = "correct"
        /\ pc = "eligibility" => tx[a].op # "persist"
        /\ pc = "authorities" => tx[a].op = "persist"
  <2>1. CASE tx[a].op = "persist"
    BY <2>1 DEF LockProposal
  <2>2. CASE tx[a].op = "correct"
    BY <2>2 DEF LockProposal
  <2>3. CASE tx[a].op \notin {"persist", "correct"}
    BY <2>3 DEF LockProposal
  <2> QED
    BY <2>1, <2>2, <2>3
<1>5. pc \in Phase
  BY DEF Phase
<1>6. /\ tx' \in [Actor -> TxState]
      /\ \A b \in Actor : b # a => tx'[b] = tx[b]
      /\ tx'[a].pc = pc
      /\ tx'[a].op = tx[a].op /\ tx'[a].proposal = tx[a].proposal
      /\ tx'[a].entity = tx[a].entity /\ tx'[a].email = tx[a].email
      /\ tx'[a].evidence = tx[a].evidence /\ tx'[a].found = tx[a].found
      /\ tx'[a].match = tx[a].match /\ tx'[a].supersedes = tx[a].supersedes
  BY <1>1, <1>4, <1>5, GotoMoves
<1>7. WellFormed(a)'
  BY <1>1, <1>2, <1>4, <1>6 DEF WellFormed
<1>8. HoldsLocks(a)' /\ StillEligible(a)' /\ StillOwned(a)'
  BY <1>1, <1>4, <1>6 DEF WellFormed, HoldsLocks, StillEligible, StillOwned
<1> QED
  BY <1>1, <1>2, <1>3, <1>4, <1>6, <1>7, <1>8, StatementKeeps DEF CallerOK, TypeOK

\* The eligibility check: the document row is shared and the version current.
LEMMA RequireEligibleKeeps ==
  ASSUME ReviewInv, NEW a \in Actor, RequireEligible(a)
  PROVE  ReviewInv'
<1>1. TypeOK /\ WellFormed(a)
  BY DEF ReviewInv, CallerOK
<1>2. CASE Rollback(a)
  BY <1>2, RollbackKeeps
<1>3. CASE /\ Eligible(tx[a])
           /\ shared' = shared \cup {a}
           /\ Goto(a, IF tx[a].evidence THEN "authorities" ELSE "commit")
           /\ UNCHANGED <<data, lock, batch>>
  <2>1. tx[a].pc = "eligibility"
    BY DEF RequireEligible
  <2>2. PICK pc \in {"authorities", "commit"} :
          Goto(a, pc) /\ (pc = "commit" => ~tx[a].evidence)
    BY <1>3
  <2>3. pc \in Phase
    BY DEF Phase
  <2>4. /\ tx' \in [Actor -> TxState]
        /\ \A b \in Actor : b # a => tx'[b] = tx[b]
        /\ tx'[a].pc = pc
        /\ tx'[a].op = tx[a].op /\ tx'[a].proposal = tx[a].proposal
        /\ tx'[a].entity = tx[a].entity /\ tx'[a].email = tx[a].email
        /\ tx'[a].evidence = tx[a].evidence /\ tx'[a].found = tx[a].found
        /\ tx'[a].match = tx[a].match /\ tx'[a].supersedes = tx[a].supersedes
    BY <1>1, <2>2, <2>3, GotoMoves
  <2>5. WellFormed(a)'
    BY <1>1, <2>1, <2>4 DEF WellFormed
  <2>6. a \in Reviewer
    BY <1>1, <2>1 DEF WellFormed
  <2>7. HoldsLocks(a)' /\ StillOwned(a)'
    BY <1>1, <2>2, <2>4 DEF WellFormed, HoldsLocks, StillOwned
  <2>8. StillEligible(a)'
    BY <1>3, <2>4 DEF StillEligible, Eligible, Reviewable, data
  <2> QED
    BY <1>1, <1>3, <2>2, <2>4, <2>5, <2>6, <2>7, <2>8, StatementKeeps DEF CallerOK, TypeOK
<1> QED
  BY <1>2, <1>3 DEF RequireEligible

\* The lock of one address or subject is taken.
LEMMA LockAuthorityKeeps ==
  ASSUME ReviewInv, NEW a \in Actor, LockAuthority(a)
  PROVE  ReviewInv'
<1>1. TypeOK
  BY DEF ReviewInv
<1>2. /\ tx[a].pc = "authorities" /\ UNCHANGED <<data, shared, batch, tx>>
      /\ \E k \in Missing(a) : lock[k] = Null /\ lock' = [lock EXCEPT ![k] = a]
  BY DEF LockAuthority
<1>3. Missing(a) \subseteq Authorities
  BY <1>1, TxTyped DEF Missing, Authorities
<1>4. \E k \in Target \cup Authorities : lock[k] = Null /\ lock' = [lock EXCEPT ![k] = a]
  BY <1>2, <1>3
<1>5. \A k \in Target \cup Authorities : lock[k] = a => lock'[k] = a
  BY <1>1, <1>4 DEF TypeOK
<1>6. CallerOK(a)'
  BY <1>2, <1>5, OtherKeeps DEF data
<1> QED
  BY <1>1, <1>2, <1>4, <1>6, StatementKeeps DEF TypeOK

\* When nothing is missing, the address and the matched subject are locked.
LEMMA AllLockedHolds ==
  ASSUME ReviewInv, NEW a \in Actor, AllLocked(a), tx[a].match # Null
  PROVE  lock[tx[a].match] = a /\ (tx[a].op = "persist" => lock[tx[a].email] = a)
<1>1. WellFormed(a)
  BY DEF ReviewInv, CallerOK
<1> QED
  BY <1>1 DEF AllLocked, Missing, WellFormed

\* Nobody asks who owns what without a match, or about a decided proposal.
LEMMA AskNobodyKeeps ==
  ASSUME ReviewInv, NEW a \in Actor, AskNobody(a)
  PROVE  ReviewInv'
<1>1. TypeOK /\ WellFormed(a) /\ StillEligible(a)
  BY DEF ReviewInv, CallerOK
<1>2. /\ AllLocked(a) /\ ~AsksOwners(tx[a]) /\ Goto(a, "commit")
      /\ UNCHANGED <<data, lock, shared, batch>> /\ "commit" \in Phase
  BY DEF AskNobody, Phase
<1>3. /\ tx' \in [Actor -> TxState]
      /\ \A b \in Actor : b # a => tx'[b] = tx[b]
      /\ tx'[a].pc = "commit"
      /\ tx'[a].op = tx[a].op /\ tx'[a].proposal = tx[a].proposal
      /\ tx'[a].entity = tx[a].entity /\ tx'[a].email = tx[a].email
      /\ tx'[a].evidence = tx[a].evidence /\ tx'[a].found = tx[a].found
      /\ tx'[a].match = tx[a].match /\ tx'[a].supersedes = tx[a].supersedes
  BY <1>1, <1>2, GotoMoves
<1>4. tx[a].pc = "authorities"
  BY <1>2 DEF AllLocked
<1>5. WellFormed(a)'
  BY <1>1, <1>3, <1>4 DEF WellFormed
<1>6. HoldsLocks(a)'
  BY <1>2, <1>3, AllLockedHolds DEF HoldsLocks
<1>7. StillEligible(a)'
  BY <1>1, <1>2, <1>3, <1>4 DEF StillEligible, data
<1>8. StillOwned(a)'
  <2>1. tx[a].match # Null => tx[a].op = "persist" /\ Effective(tx[a].proposal) # {}
    BY <1>2 DEF AsksOwners
  <2>2. PICK p : p = tx[a].proposal
    OBVIOUS
  <2>3. Effective(p)' = Effective(p)
    BY <1>2 DEF Effective, Stored, data
  <2> QED
    BY <1>3, <2>1, <2>2, <2>3 DEF StillOwned
<1> QED
  BY <1>1, <1>2, <1>3, <1>5, <1>6, <1>7, <1>8, StatementKeeps DEF CallerOK, TypeOK

\* The owners that are read are all the owners there are.
LEMMA OwnersAreAll ==
  /\ \A m : EmailWithin(m, EmailOwners(m))
  /\ \A s : SubjectWithin(s, ProviderOwners(s))
BY DEF EmailWithin, SubjectWithin, EmailOwners, ProviderOwners, Linked, AcceptedAutomatically

\* While no row is stored, what is true of all owners stays so.
LEMMA WithinUnchanged ==
  ASSUME UNCHANGED <<decisions, proof>>
  PROVE  /\ \A m, o : EmailWithin(m, o) => EmailWithin(m, o)'
         /\ \A s, o : SubjectWithin(s, o) => SubjectWithin(s, o)'
BY DEF EmailWithin, SubjectWithin, Linked, AcceptedAutomatically, EffectiveAccepted, Stored,
       Initial

\* The worker reads who owns the address.
LEMMA ReadEmailOwnersKeeps ==
  ASSUME ReviewInv, NEW a \in Actor, ReadEmailOwners(a)
  PROVE  ReviewInv'
<1>1. TypeOK /\ WellFormed(a)
  BY DEF ReviewInv, CallerOK
<1>2. /\ AllLocked(a) /\ tx[a].match # Null /\ tx[a].op = "persist" /\ tx[a].pc = "authorities"
      /\ UNCHANGED <<data, lock, shared, batch>>
  BY DEF ReadEmailOwners, AsksOwners, AllLocked
<1>3. PICK o \in SUBSET Entity : o = EmailOwners(tx[a].email)
  BY <1>1, OwnersTyped
<1> DEFINE t == [tx[a] EXCEPT !.pc = "providerOwners", !.emailOwners = o]
<1>4. tx' = [tx EXCEPT ![a] = t]
  BY <1>1, <1>3 DEF ReadEmailOwners, TypeOK
<1>5. tx[a] \in TxState
  BY <1>1, TxTyped
<1>6. t \in TxState
  BY <1>5 DEF TxState, Phase
<1>7. /\ t.pc = "providerOwners" /\ t.emailOwners = o /\ t.op = tx[a].op
      /\ t.proposal = tx[a].proposal /\ t.entity = tx[a].entity /\ t.email = tx[a].email
      /\ t.evidence = tx[a].evidence /\ t.found = tx[a].found /\ t.match = tx[a].match
      /\ t.supersedes = tx[a].supersedes
  BY <1>5 DEF TxState
<1> HIDE DEF t
<1>8. tx' \in [Actor -> TxState] /\ tx'[a] = t /\ \A b \in Actor : b # a => tx'[b] = tx[b]
  BY <1>1, <1>4, <1>6, RecordMoves
<1>9. WellFormed(a)'
  BY <1>1, <1>2, <1>7, <1>8 DEF WellFormed
<1>10. HoldsLocks(a)' /\ StillEligible(a)'
  BY <1>2, <1>7, <1>8, AllLockedHolds DEF HoldsLocks, StillEligible
<1>11. StillOwned(a)'
  <2>1. PICK m : m = tx[a].email
    OBVIOUS
  <2>2. EmailWithin(m, o)'
    BY <1>2, <1>3, <2>1, OwnersAreAll, WithinUnchanged DEF data
  <2> QED
    BY <1>7, <1>8, <2>1, <2>2 DEF StillOwned
<1> QED
  BY <1>1, <1>2, <1>7, <1>8, <1>9, <1>10, <1>11, StatementKeeps DEF CallerOK, TypeOK

\* The worker reads who owns the account.
LEMMA ReadProviderOwnersKeeps ==
  ASSUME ReviewInv, NEW a \in Actor, ReadProviderOwners(a)
  PROVE  ReviewInv'
<1>1. TypeOK /\ CallerOK(a)
  BY DEF ReviewInv
<1>2. /\ tx[a].pc = "providerOwners" /\ UNCHANGED <<data, lock, shared, batch>>
      /\ tx[a].op = "persist" /\ tx[a].match # Null
  BY <1>1 DEF ReadProviderOwners, CallerOK, WellFormed
<1>3. PICK o \in SUBSET Entity : o = ProviderOwners(tx[a].match)
  BY <1>1, OwnersTyped
<1> DEFINE t == [tx[a] EXCEPT !.pc = "commit", !.providerOwners = o]
<1>4. tx' = [tx EXCEPT ![a] = t]
  BY <1>1, <1>3 DEF ReadProviderOwners, TypeOK
<1>5. tx[a] \in TxState
  BY <1>1, TxTyped
<1>6. t \in TxState
  BY <1>5 DEF TxState, Phase
<1>7. /\ t.pc = "commit" /\ t.providerOwners = o /\ t.emailOwners = tx[a].emailOwners
      /\ t.op = tx[a].op
      /\ t.proposal = tx[a].proposal /\ t.entity = tx[a].entity /\ t.email = tx[a].email
      /\ t.evidence = tx[a].evidence /\ t.found = tx[a].found /\ t.match = tx[a].match
      /\ t.supersedes = tx[a].supersedes
  BY <1>5 DEF TxState
<1> HIDE DEF t
<1>8. tx' \in [Actor -> TxState] /\ tx'[a] = t /\ \A b \in Actor : b # a => tx'[b] = tx[b]
  BY <1>1, <1>4, <1>6, RecordMoves
<1>9. WellFormed(a)'
  BY <1>1, <1>2, <1>7, <1>8 DEF CallerOK, WellFormed
<1>10. HoldsLocks(a)' /\ StillEligible(a)'
  BY <1>1, <1>2, <1>7, <1>8 DEF CallerOK, HoldsLocks, StillEligible
<1>11. StillOwned(a)'
  <2>1. PICK m, s, e : m = tx[a].email /\ s = tx[a].match /\ e = tx[a].emailOwners
    OBVIOUS
  <2>2. EmailWithin(m, e)' /\ SubjectWithin(s, o)'
    BY <1>1, <1>2, <1>3, <2>1, OwnersAreAll, WithinUnchanged DEF data, CallerOK, StillOwned
  <2> QED
    BY <1>2, <1>7, <1>8, <2>1, <2>2 DEF StillOwned
<1> QED
  BY <1>1, <1>2, <1>7, <1>8, <1>9, <1>10, <1>11, StatementKeeps DEF CallerOK, TypeOK

\* The reviewer's command asks who owns the account, and goes on or rolls back.
LEMMA RequireProviderOwnerKeeps ==
  ASSUME ReviewInv, NEW a \in Actor, RequireProviderOwner(a)
  PROVE  ReviewInv'
<1>1. TypeOK /\ WellFormed(a) /\ StillEligible(a)
  BY DEF ReviewInv, CallerOK
<1>2. CASE Rollback(a)
  BY <1>2, RollbackKeeps
<1>3. CASE /\ ProviderOwners(tx[a].match) \subseteq {tx[a].entity}
           /\ Goto(a, "commit")
           /\ UNCHANGED <<data, lock, shared, batch>>
  <2>1. /\ AllLocked(a) /\ tx[a].match # Null /\ tx[a].op # "persist"
        /\ tx[a].pc = "authorities" /\ "commit" \in Phase
    BY DEF RequireProviderOwner, AsksOwners, AllLocked, Phase
  <2>2. /\ tx' \in [Actor -> TxState]
        /\ \A b \in Actor : b # a => tx'[b] = tx[b]
        /\ tx'[a].pc = "commit"
        /\ tx'[a].op = tx[a].op /\ tx'[a].proposal = tx[a].proposal
        /\ tx'[a].entity = tx[a].entity /\ tx'[a].email = tx[a].email
        /\ tx'[a].evidence = tx[a].evidence /\ tx'[a].found = tx[a].found
        /\ tx'[a].match = tx[a].match /\ tx'[a].supersedes = tx[a].supersedes
    BY <1>1, <1>3, <2>1, GotoMoves
  <2>3. WellFormed(a)'
    BY <1>1, <2>1, <2>2 DEF WellFormed
  <2>4. HoldsLocks(a)'
    BY <1>3, <2>1, <2>2, AllLockedHolds DEF HoldsLocks
  <2>5. StillEligible(a)'
    BY <1>1, <1>3, <2>1, <2>2 DEF StillEligible, data
  <2>6. StillOwned(a)'
    <3>1. PICK s, e : s = tx[a].match /\ e = tx[a].entity
      OBVIOUS
    <3>2. SubjectWithin(s, {e})
      BY <1>3, <3>1, OwnersAreAll DEF SubjectWithin
    <3>3. SubjectWithin(s, {e})'
      BY <1>3, <3>2, WithinUnchanged DEF data
    <3> QED
      BY <2>1, <2>2, <3>1, <3>3 DEF StillOwned
  <2> QED
    BY <1>1, <1>3, <2>2, <2>3, <2>4, <2>5, <2>6, StatementKeeps DEF CallerOK, TypeOK
<1> QED
  BY <1>2, <1>3 DEF RequireProviderOwner

-----------------------------------------------------------------------------
(* The steps that store a decision.                                        *)

\* A decision that a caller may store: it holds the locks of what the decision
\* gives away, and all that was given away before agrees.
Stores(a, d, s) ==
  /\ AppendWithProof(d, s)
  /\ s # Null /\ d.supersedes = Null /\ d.body.entity # Null =>
       lock[s] = a /\ SubjectWithin(s, {d.body.entity})
  /\ d.authority = "automatic" =>
       /\ lock[d.body.email] = a
       /\ EmailWithin(d.body.email, {d.body.entity})
  /\ d.authority = "reviewer" /\ d.supersedes = Null => VersionOf[d.target] = current
  /\ d.supersedes # Null => d.body.entity # Null /\ s = proof[d.supersedes]

\* The row that is written next is free.
LEMMA NextIdIsFree ==
  ASSUME Stored # DecisionId
  PROVE  NextId \in DecisionId /\ NextId \notin Stored
<1>1. \E i \in DecisionId : decisions[i] = Null
  BY DEF Stored
<1> QED
  BY <1>1 DEF NextId, Stored

\* What storing a decision does to the rows and to who is effective.
LEMMA AppendMoves ==
  ASSUME TypeOK, SingleHistory, NEW d \in Decision, NEW s \in Subject \cup {Null},
         AppendWithProof(d, s)
  PROVE  /\ AuthorityTypeOK' /\ SingleHistory'
         /\ proof' \in [DecisionId -> Subject \cup {Null}]
         /\ Effective(d.target)' = {NextId}
         /\ \A t \in Target : t # d.target => Effective(t)' = Effective(t)
         /\ NextId \in DecisionId /\ NextId \notin Stored
         /\ Stored' = Stored \cup {NextId}
         /\ decisions'[NextId] = d /\ proof'[NextId] = s
         /\ \A j \in Stored : decisions'[j] = decisions[j] /\ proof'[j] = proof[j]
         /\ AuthorityNext
<1>1. NextId \in DecisionId /\ NextId \notin Stored
  BY NextIdIsFree DEF AppendWithProof
<1>2. PICK n \in DecisionId : n = NextId /\ n \notin Stored
  BY <1>1
<1>3. AppendRow(n, d) /\ proof' = [proof EXCEPT ![n] = s] /\ AuthorityTypeOK
  BY <1>2 DEF AppendWithProof, TypeOK
<1>4. /\ AuthorityTypeOK' /\ SingleHistory'
      /\ Effective(d.target)' = {n}
      /\ \A t \in Target : t # d.target => Effective(t)' = Effective(t)
      /\ Stored' = Stored \cup {n}
      /\ decisions'[n] = d
      /\ \A j \in Stored : decisions'[j] = decisions[j]
  BY <1>3, AppendKeepsSingle, AppendIsEffective, AppendAddsOne
<1>5. /\ proof' \in [DecisionId -> Subject \cup {Null}] /\ proof'[n] = s
      /\ \A j \in Stored : proof'[j] = proof[j]
  BY <1>2, <1>3 DEF TypeOK, Stored
<1>6. AuthorityNext
  BY <1>3 DEF AuthorityNext
<1> QED
  BY <1>2, <1>3, <1>4, <1>5, <1>6

\* After an append the accepted decisions are the new one and some of the old.
LEMMA AppendAccepts ==
  ASSUME TypeOK, SingleHistory, NEW d \in Decision, NEW s \in Subject \cup {Null},
         AppendWithProof(d, s), NEW i \in DecisionId, EffectiveAccepted(i)'
  PROVE  \/ decisions'[i] = d /\ proof'[i] = s /\ d.body.entity # Null
         \/ /\ EffectiveAccepted(i) /\ decisions'[i] = decisions[i] /\ proof'[i] = proof[i]
<1>1. /\ Stored' = Stored \cup {NextId}
      /\ decisions'[NextId] = d /\ proof'[NextId] = s
      /\ \A j \in Stored : decisions'[j] = decisions[j] /\ proof'[j] = proof[j]
  BY AppendMoves
<1>2. /\ i \in Stored' /\ decisions'[i].body.entity # Null
      /\ \A j \in Stored' : decisions'[j].supersedes # i
  BY DEF EffectiveAccepted
<1>3. CASE i = NextId
  BY <1>1, <1>2, <1>3
<1>4. CASE i \in Stored
  BY <1>1, <1>2, <1>4 DEF EffectiveAccepted
<1> QED
  BY <1>1, <1>2, <1>3, <1>4

\* What is true of all owners stays so if the new owner is one of them.
LEMMA AppendWithin ==
  ASSUME TypeOK, SingleHistory, NEW d \in Decision, NEW s \in Subject \cup {Null},
         AppendWithProof(d, s), NEW o
  PROVE  /\ \A r : /\ SubjectWithin(r, o)
                   /\ s = r /\ s # Null /\ d.supersedes = Null /\ d.body.entity # Null
                        => d.body.entity \in o
                   => SubjectWithin(r, o)'
         /\ \A m : /\ EmailWithin(m, o)
                   /\ d.authority = "automatic" /\ d.body.email = m => d.body.entity \in o
                   => EmailWithin(m, o)'
<1>1. ASSUME NEW i \in DecisionId, EffectiveAccepted(i)'
      PROVE  \/ decisions'[i] = d /\ proof'[i] = s /\ d.body.entity # Null
             \/ /\ EffectiveAccepted(i) /\ decisions'[i] = decisions[i] /\ proof'[i] = proof[i]
  BY <1>1, AppendAccepts
<1>2. ASSUME NEW r, SubjectWithin(r, o),
             s = r /\ s # Null /\ d.supersedes = Null /\ d.body.entity # Null
               => d.body.entity \in o
      PROVE  SubjectWithin(r, o)'
  BY <1>1, <1>2 DEF SubjectWithin, Linked, Initial
<1>3. ASSUME NEW m, EmailWithin(m, o),
             d.authority = "automatic" /\ d.body.email = m => d.body.entity \in o
      PROVE  EmailWithin(m, o)'
  BY <1>1, <1>3 DEF EmailWithin, AcceptedAutomatically
<1> QED
  BY <1>2, <1>3

\* Storing keeps the two uniqueness properties.
LEMMA StoreKeepsOwners ==
  ASSUME ReviewInv, NEW a, NEW d \in Decision, NEW s \in Subject \cup {Null}, Stores(a, d, s)
  PROVE  AutomaticEmailHasOneOwner' /\ UncorrectedSubjectHasOneOwner'
<1>1. ASSUME NEW i \in DecisionId, EffectiveAccepted(i)'
      PROVE  \/ decisions'[i] = d /\ proof'[i] = s /\ d.body.entity # Null
             \/ /\ EffectiveAccepted(i) /\ decisions'[i] = decisions[i] /\ proof'[i] = proof[i]
  BY <1>1, AppendAccepts DEF Stores, ReviewInv
<1>2. AutomaticEmailHasOneOwner'
  <2> SUFFICES ASSUME NEW i \in DecisionId, NEW j \in DecisionId,
                      EffectiveAccepted(i)', EffectiveAccepted(j)',
                      decisions'[i].authority = "automatic",
                      decisions'[j].authority = "automatic",
                      decisions'[i].body.email = decisions'[j].body.email
               PROVE  decisions'[i].body.entity = decisions'[j].body.entity
    BY DEF AutomaticEmailHasOneOwner
  <2>1. /\ AutomaticEmailHasOneOwner
        /\ d.authority = "automatic" => EmailWithin(d.body.email, {d.body.entity})
    BY DEF ReviewInv, Stores
  <2>2. CASE decisions'[i] = d /\ EffectiveAccepted(j) /\ decisions'[j] = decisions[j]
    BY <2>1, <2>2 DEF EmailWithin, AcceptedAutomatically
  <2>3. CASE decisions'[j] = d /\ EffectiveAccepted(i) /\ decisions'[i] = decisions[i]
    BY <2>1, <2>3 DEF EmailWithin, AcceptedAutomatically
  <2>4. CASE /\ EffectiveAccepted(i) /\ decisions'[i] = decisions[i]
             /\ EffectiveAccepted(j) /\ decisions'[j] = decisions[j]
    BY <2>1, <2>4 DEF AutomaticEmailHasOneOwner
  <2> QED
    BY <1>1, <2>2, <2>3, <2>4
<1>3. UncorrectedSubjectHasOneOwner'
  <2> SUFFICES ASSUME NEW i \in DecisionId, NEW j \in DecisionId,
                      EffectiveAccepted(i)', EffectiveAccepted(j)',
                      Initial(i)', Initial(j)', proof'[i] # Null, proof'[i] = proof'[j]
               PROVE  decisions'[i].body.entity = decisions'[j].body.entity
    BY DEF UncorrectedSubjectHasOneOwner
  <2>1. /\ UncorrectedSubjectHasOneOwner
        /\ s # Null /\ d.supersedes = Null /\ d.body.entity # Null =>
             SubjectWithin(s, {d.body.entity})
    BY DEF ReviewInv, Stores
  <2>2. CASE /\ decisions'[i] = d /\ proof'[i] = s /\ d.body.entity # Null
             /\ EffectiveAccepted(j) /\ decisions'[j] = decisions[j] /\ proof'[j] = proof[j]
    BY <2>1, <2>2 DEF SubjectWithin, Linked, Initial
  <2>3. CASE /\ decisions'[j] = d /\ proof'[j] = s /\ d.body.entity # Null
             /\ EffectiveAccepted(i) /\ decisions'[i] = decisions[i] /\ proof'[i] = proof[i]
    BY <2>1, <2>3 DEF SubjectWithin, Linked, Initial
  <2>4. CASE /\ EffectiveAccepted(i) /\ decisions'[i] = decisions[i] /\ proof'[i] = proof[i]
             /\ EffectiveAccepted(j) /\ decisions'[j] = decisions[j] /\ proof'[j] = proof[j]
    BY <2>1, <2>4 DEF UncorrectedSubjectHasOneOwner, Initial
  <2> QED
    BY <1>1, <2>2, <2>3, <2>4
<1> QED
  BY <1>2, <1>3

\* What another caller has read of the owners stays true when a row is stored:
\* the locks under which it was read are not those of the one that stores.
LEMMA OtherStillOwned ==
  ASSUME ReviewInv, NEW a \in Actor, NEW d \in Decision, NEW s \in Subject \cup {Null},
         Stores(a, d, s), NEW b \in Actor, b # a, tx'[b] = tx[b]
  PROVE  StillOwned(b)'
<1>1. /\ TypeOK /\ SingleHistory /\ WellFormed(b) /\ HoldsLocks(b) /\ StillOwned(b)
      /\ AppendWithProof(d, s)
  BY DEF ReviewInv, CallerOK, Stores
<1>2. PICK p, m, r, e, eo, po :
        /\ p = tx[b].proposal /\ m = tx[b].email /\ r = tx[b].match
        /\ e = tx[b].entity /\ eo = tx[b].emailOwners /\ po = tx[b].providerOwners
  OBVIOUS
<1>3. lock[m] = b => (EmailWithin(m, eo) => EmailWithin(m, eo)')
  BY <1>1, AppendWithin DEF Stores
<1>4. lock[r] = b => /\ SubjectWithin(r, po) => SubjectWithin(r, po)'
                     /\ SubjectWithin(r, {e}) => SubjectWithin(r, {e})'
  BY <1>1, AppendWithin DEF Stores
<1>5. p \in Target /\ Effective(p) # {} => Effective(p)' # {}
  BY <1>1, AppendMoves
<1>6. CASE tx[b].pc = "providerOwners"
  BY <1>1, <1>2, <1>3, <1>6 DEF StillOwned, WellFormed, HoldsLocks
<1>7. CASE tx[b].pc = "commit" /\ tx[b].match # Null /\ tx[b].op # "persist"
  BY <1>1, <1>2, <1>4, <1>7 DEF StillOwned, HoldsLocks
<1>8. CASE tx[b].pc = "commit" /\ tx[b].match # Null /\ tx[b].op = "persist"
  <2>1. p \in Target
    BY <1>1, <1>2, <1>8, TxTyped DEF WellFormed
  <2>2. lock[r] = b /\ lock[m] = b
    BY <1>1, <1>2, <1>8 DEF HoldsLocks
  <2>3. Effective(p) # {} \/ (EmailWithin(m, eo) /\ SubjectWithin(r, po))
    BY <1>1, <1>2, <1>8 DEF StillOwned
  <2>4. Effective(p)' # {} \/ (EmailWithin(m, eo)' /\ SubjectWithin(r, po)')
    BY <1>3, <1>4, <1>5, <2>1, <2>2, <2>3
  <2> QED
    BY <1>2, <1>8, <2>4 DEF StillOwned
<1>9. CASE ~(tx[b].pc = "providerOwners") /\ ~(tx[b].pc = "commit" /\ tx[b].match # Null)
  BY <1>9 DEF StillOwned
<1> QED
  BY <1>6, <1>7, <1>8, <1>9

\* A transaction that stores a decision and ends keeps the invariant.
LEMMA StoreKeeps ==
  ASSUME ReviewInv, NEW a \in Actor, NEW d \in Decision, NEW s \in Subject \cup {Null},
         Stores(a, d, s), End(a), UNCHANGED current,
         staged' \subseteq Target \X Subject, entities' \subseteq Entity
  PROVE  ReviewInv'
<1>1. TypeOK /\ SingleHistory /\ AppendWithProof(d, s)
  BY DEF ReviewInv, Stores
<1>2. AuthorityTypeOK' /\ SingleHistory' /\ proof' \in [DecisionId -> Subject \cup {Null}]
  BY <1>1, AppendMoves
<1>3. tx' \in [Actor -> TxState] /\ tx'[a] = NoTx /\ \A b \in Actor : b # a => tx'[b] = tx[b]
  BY <1>1, NoTxTyped, RecordMoves DEF End
<1>4. Release(a) /\ NextMention(a)
  BY DEF End
<1>5. shared' = shared \ {a} /\ shared' \subseteq Reviewer
  BY <1>1, <1>4, ReleaseMoves DEF TypeOK
<1>6. /\ lock' \in [Target \cup Authorities -> Actor \cup {Null}]
      /\ \A k \in Target \cup Authorities :
           /\ lock'[k] \in {lock[k], a, Null} /\ lock'[k] # a
           /\ \A b \in Actor : b # a /\ lock[k] = b => lock'[k] = b
  BY <1>1, <1>4, ReleaseMoves
<1>7. /\ batch' \in [Worker -> BatchState]
      /\ \A w \in Worker : batch'[w].pc = "idle" <=> batch'[w].work = {}
  BY <1>1, <1>4, NextMentionMoves
<1>8. TypeOK'
  BY <1>1, <1>2, <1>3, <1>5, <1>6, <1>7, MoveTyped
<1>9. CallerOK(a)'
  BY <1>3 DEF NoTx, CallerOK, WellFormed, HoldsLocks, StillEligible, StillOwned
<1>10. ASSUME NEW b \in Actor, b # a PROVE CallerOK(b)'
  <2>1. WellFormed(b)' /\ HoldsLocks(b)' /\ StillEligible(b)'
    BY <1>3, <1>5, <1>6, <1>10, OtherHolds
  <2>2. StillOwned(b)'
    BY <1>3, <1>10, OtherStillOwned
  <2> QED
    BY <2>1, <2>2 DEF CallerOK
<1> QED
  BY <1>2, <1>8, <1>9, <1>10, StoreKeepsOwners DEF ReviewInv

\* What a worker's commit does: it stages candidates, changes nothing, or accepts
\* the match for the entity that all owners agree on.
LEMMA PersistStores ==
  ASSUME ReviewInv, NEW w \in Worker, Persist(w)
  PROVE  /\ End(w) /\ UNCHANGED current
         /\ staged' \subseteq Target \X Subject /\ entities' \subseteq Entity
         /\ \/ UNCHANGED <<decisions, proof>>
            \/ \E d \in Decision, s \in Subject \cup {Null} : Stores(w, d, s)
<1>1. TypeOK /\ w \in Actor /\ CallerOK(w) /\ tx[w].pc = "commit" /\ tx[w].op = "persist"
  BY DEF ReviewInv, Actor, Persist
<1>2. /\ tx[w].proposal \in Target /\ tx[w].found \subseteq Subject
      /\ tx[w].match \in Subject \cup {Null} /\ tx[w].email \in Email \cup {Null}
  BY <1>1, TxTyped DEF CallerOK, WellFormed
<1>3. End(w)
  BY DEF Persist
<1>4. ASSUME NEW p \in Target, NEW found \in SUBSET Subject, Stage(p, found)
      PROVE  /\ UNCHANGED <<current, decisions, proof>>
             /\ staged' \subseteq Target \X Subject /\ entities' \subseteq Entity
  BY <1>1, <1>4, DataAssumption DEF Stage, TypeOK
<1>5. CASE UNCHANGED data
  BY <1>1, <1>3, <1>5 DEF data, TypeOK
<1>6. CASE Stage(tx[w].proposal, tx[w].found)
  BY <1>2, <1>3, <1>4, <1>6
<1>7. CASE tx[w].match # Null /\ Stage(tx[w].proposal, {tx[w].match})
  BY <1>2, <1>3, <1>4, <1>7
<1>8. CASE /\ tx[w].match # Null /\ Effective(tx[w].proposal) = {}
           /\ \E e \in Agreed(tx[w]) : AcceptMatch(tx[w], e)
  <2>1. PICK e \in Agreed(tx[w]) : AcceptMatch(tx[w], e)
    BY <1>8
  <2>2. /\ e \in Entity
        /\ tx[w].emailOwners \subseteq {e} /\ tx[w].providerOwners \subseteq {e}
    BY DEF Agreed
  <2> DEFINE d == [target |-> tx[w].proposal, body |-> [entity |-> e, email |-> tx[w].email],
                   authority |-> "automatic", supersedes |-> Null]
  <2>3. d \in Decision
    BY <1>2, <2>2, BodyAssumption DEF Decision, AuthorityKind
  <2>4. /\ d.body.entity = e /\ d.body.email = tx[w].email /\ d.authority = "automatic"
        /\ d.supersedes = Null
    OBVIOUS
  <2>5. /\ AppendWithProof(d, tx[w].match) /\ UNCHANGED <<staged, current>>
        /\ entities' = entities \cup {e}
    BY <2>1 DEF AcceptMatch
  <2> HIDE DEF d
  <2>6. lock[tx[w].match] = w /\ lock[tx[w].email] = w
    BY <1>1, <1>8 DEF CallerOK, HoldsLocks
  <2>7. /\ EmailWithin(tx[w].email, tx[w].emailOwners)
        /\ SubjectWithin(tx[w].match, tx[w].providerOwners)
    BY <1>1, <1>8 DEF CallerOK, StillOwned
  <2>8. PICK s, m : s = tx[w].match /\ m = tx[w].email
    OBVIOUS
  <2>9. EmailWithin(m, {e}) /\ SubjectWithin(s, {e})
    BY <2>2, <2>7, <2>8 DEF EmailWithin, SubjectWithin
  <2>10. Stores(w, d, s)
    BY <2>4, <2>5, <2>6, <2>8, <2>9 DEF Stores
  <2> QED
    BY <1>1, <1>2, <1>3, <2>2, <2>3, <2>5, <2>8, <2>10 DEF TypeOK
<1> QED
  BY <1>5, <1>6, <1>7, <1>8 DEF Persist

\* What a reviewer's insert does: it stores the decision with the link of the
\* match, or with the link of the decision it corrects, or rolls back.
LEMMA AppendDecisionStores ==
  ASSUME ReviewInv, NEW r \in Actor, AppendDecision(r)
  PROVE  /\ End(r) /\ UNCHANGED current
         /\ staged' \subseteq Target \X Subject /\ entities' \subseteq Entity
         /\ \/ UNCHANGED <<decisions, proof>>
            \/ \E d \in Decision, s \in Subject \cup {Null} : Stores(r, d, s)
<1>1. TypeOK /\ CallerOK(r) /\ tx[r].pc = "commit" /\ tx[r].op # "persist"
  BY DEF ReviewInv, AppendDecision
<1>2. /\ tx[r].proposal \in Target /\ tx[r].supersedes \in DecisionId \cup {Null}
      /\ tx[r].match \in Subject \cup {Null} /\ tx[r].email \in Email \cup {Null}
      /\ tx[r].entity \in Entity \cup {Null}
  BY <1>1, TxTyped DEF CallerOK, WellFormed
<1>3. CASE Rollback(r)
  BY <1>1, <1>3 DEF Rollback, data, TypeOK
<1> DEFINE d == [target |-> tx[r].proposal,
                 body |-> [entity |-> tx[r].entity, email |-> tx[r].email],
                 authority |-> "reviewer", supersedes |-> tx[r].supersedes]
<1>4. CASE /\ AppendWithProof(d, ProofOf(tx[r]))
           /\ entities' = entities \cup ({tx[r].entity} \ {Null})
           /\ UNCHANGED <<staged, current>>
           /\ End(r)
  <2>1. d \in Decision
    BY <1>2, BodyAssumption DEF Decision, AuthorityKind
  <2>2. /\ d.target = tx[r].proposal /\ d.body.entity = tx[r].entity
        /\ d.authority = "reviewer" /\ d.supersedes = tx[r].supersedes
    OBVIOUS
  <2>3. PICK s : s = ProofOf(tx[r])
    OBVIOUS
  <2>4. AppendWithProof(d, s)
    BY <1>4, <2>3
  <2> HIDE DEF d
  <2>5. CASE tx[r].op = "correct"
    <3>1. tx[r].supersedes \in DecisionId /\ tx[r].supersedes # Null /\ tx[r].entity # Null
      BY <1>1, <1>2, <2>5 DEF CallerOK, WellFormed
    <3>2. s = proof[tx[r].supersedes] /\ s \in Subject \cup {Null}
      BY <1>1, <2>3, <2>5, <3>1 DEF ProofOf, TypeOK
    <3>3. Stores(r, d, s)
      BY <2>2, <2>4, <3>1, <3>2 DEF Stores
    <3> QED
      BY <1>1, <1>2, <1>4, <2>1, <3>2, <3>3 DEF TypeOK
  <2>6. CASE tx[r].op # "correct"
    <3>1. s = tx[r].match /\ tx[r].supersedes = Null
      BY <1>1, <2>3, <2>6 DEF ProofOf, CallerOK, WellFormed
    <3>2. VersionOf[d.target] = current
      BY <1>1, <2>2, <2>6 DEF CallerOK, StillEligible
    <3>3. PICK e : e = tx[r].entity
      OBVIOUS
    <3>4. s # Null => lock[s] = r /\ SubjectWithin(s, {e})
      BY <1>1, <3>1, <3>3 DEF CallerOK, HoldsLocks, StillOwned
    <3>5. Stores(r, d, s)
      BY <2>2, <2>4, <3>1, <3>2, <3>3, <3>4 DEF Stores
    <3> QED
      BY <1>1, <1>2, <1>4, <2>1, <3>1, <3>5 DEF TypeOK
  <2> QED
    BY <2>5, <2>6
<1> QED
  BY <1>3, <1>4 DEF AppendDecision

-----------------------------------------------------------------------------
(* The specification.                                                      *)

\* Every step keeps the invariant.
LEMMA StepKeeps ==
  ASSUME ReviewInv, Next
  PROVE  ReviewInv'
<1>1. CASE \E w \in Worker : Cancel(w)
  BY <1>1, CancelKeeps
<1>2. CASE SetCurrentDocumentVersion
  BY <1>2, VersionKeeps
<1>3. ASSUME NEW a \in Actor, Reads(a) PROVE ReviewInv'
  <2>1. CASE a \in Worker /\ (LoadWork(a) \/ LoadSnapshots(a) \/ LoadLinks(a) \/ Search(a))
    BY <2>1, LoadsKeep, SearchKeeps
  <2>2. CASE /\ a \in Reviewer
             /\ \/ Decide(a) \/ CorrectReviewDecision(a) \/ VerifyReviewerEmail(a)
                \/ CreateReviewPerson(a) \/ AcceptDirectoryCandidate(a)
    BY <2>2, DecideKeeps, CorrectKeeps, VerifyKeeps, CreateKeeps, CandidateKeeps
  <2> QED
    BY <1>3, <2>1, <2>2 DEF Reads
<1>4. ASSUME NEW a \in Actor, Locks(a) PROVE ReviewInv'
  BY <1>4, LockProposalKeeps, LockAuthorityKeeps DEF Locks
<1>5. ASSUME NEW a \in Actor, Statements(a) PROVE ReviewInv'
  <2>1. CASE \/ RequireEligible(a) \/ AskNobody(a) \/ ReadEmailOwners(a)
             \/ ReadProviderOwners(a) \/ RequireProviderOwner(a)
    BY <2>1, RequireEligibleKeeps, AskNobodyKeeps, ReadEmailOwnersKeeps,
       ReadProviderOwnersKeeps, RequireProviderOwnerKeeps
  <2>2. CASE Persist(a)
    <3>1. a \in Worker
      BY <2>2 DEF Persist, ReviewInv, CallerOK, WellFormed
    <3> QED
      BY <2>2, <3>1, PersistStores, EndKeeps, StoreKeeps
  <2>3. CASE AppendDecision(a)
    BY <2>3, AppendDecisionStores, EndKeeps, StoreKeeps
  <2> QED
    BY <1>5, <2>1, <2>2, <2>3 DEF Statements
<1>6. ASSUME NEW a \in Actor, Fail(a) PROVE ReviewInv'
  BY <1>6, RollbackKeeps DEF Fail
<1> QED
  BY <1>1, <1>2, <1>3, <1>4, <1>5, <1>6 DEF Next

\* A step stores at most one decision, under the conditions of Stores.
LEMMA StepStores ==
  ASSUME ReviewInv, Next
  PROVE  \/ UNCHANGED <<decisions, proof>>
         \/ \E a \in Actor, d \in Decision, s \in Subject \cup {Null} : Stores(a, d, s)
<1>1. CASE (\E w \in Worker : Cancel(w)) \/ SetCurrentDocumentVersion
  BY <1>1 DEF Cancel, SetCurrentDocumentVersion, data
<1>2. ASSUME NEW a \in Actor, Reads(a) PROVE UNCHANGED <<decisions, proof>>
  BY <1>2 DEF Reads, LoadWork, LoadSnapshots, LoadLinks, Search, Decide, CorrectReviewDecision,
              VerifyReviewerEmail, CreateReviewPerson, AcceptDirectoryCandidate, data
<1>3. ASSUME NEW a \in Actor, Locks(a) PROVE UNCHANGED <<decisions, proof>>
  BY <1>3 DEF Locks, LockProposal, LockAuthority, data
<1>4. ASSUME NEW a \in Actor, Fail(a) PROVE UNCHANGED <<decisions, proof>>
  BY <1>4 DEF Fail, Rollback, data
<1>5. ASSUME NEW a \in Actor, Statements(a)
      PROVE  \/ UNCHANGED <<decisions, proof>>
             \/ \E d \in Decision, s \in Subject \cup {Null} : Stores(a, d, s)
  <2>1. CASE \/ RequireEligible(a) \/ AskNobody(a) \/ ReadEmailOwners(a)
             \/ ReadProviderOwners(a) \/ RequireProviderOwner(a)
    BY <2>1 DEF RequireEligible, AskNobody, ReadEmailOwners, ReadProviderOwners,
                RequireProviderOwner, Rollback, data
  <2>2. CASE Persist(a)
    <3>1. a \in Worker
      BY <2>2 DEF Persist, ReviewInv, CallerOK, WellFormed
    <3> QED
      BY <2>2, <3>1, PersistStores
  <2>3. CASE AppendDecision(a)
    BY <2>3, AppendDecisionStores
  <2> QED
    BY <1>5, <2>1, <2>2, <2>3 DEF Statements
<1> QED
  BY <1>1, <1>2, <1>3, <1>4, <1>5 DEF Next

\* The initial state satisfies the invariant.
LEMMA InitSatisfies == Init => ReviewInv
<1> SUFFICES ASSUME Init PROVE ReviewInv
  OBVIOUS
<1>1. AuthorityTypeOK /\ SingleHistory
  BY EmptyIsSingle DEF Init
<1>2. Stored = {}
  BY DEF Init, AuthorityInit, Stored
<1>3. AutomaticEmailHasOneOwner /\ UncorrectedSubjectHasOneOwner
  BY <1>2 DEF AutomaticEmailHasOneOwner, UncorrectedSubjectHasOneOwner, EffectiveAccepted
<1>4. TypeOK
  <2>1. NoBatch \in BatchState /\ NoBatch.pc = "idle" /\ NoBatch.work = {}
    BY DEF NoBatch, BatchState
  <2> QED
    BY <1>1, <2>1, NoTxTyped DEF Init, TypeOK
<1>5. ASSUME NEW a \in Actor PROVE CallerOK(a)
  <2>1. tx[a] = NoTx
    BY DEF Init
  <2> QED
    BY <2>1 DEF NoTx, CallerOK, WellFormed, HoldsLocks, StillEligible, StillOwned
<1> QED
  BY <1>1, <1>3, <1>4, <1>5 DEF ReviewInv

\* The inductive invariant of the specification.
LEMMA ReviewInvariant == Spec => []ReviewInv
<1>1. ASSUME ReviewInv, [Next]_vars PROVE ReviewInv'
  <2>1. CASE Next
    BY <1>1, <2>1, StepKeeps
  <2>2. CASE UNCHANGED vars
    <3>1. /\ UNCHANGED <<decisions, proof, current>>
          /\ UNCHANGED <<entities, staged, lock, shared, batch, tx>>
      BY <2>2 DEF vars
    <3>2. \A b \in Actor : CallerOK(b)'
      BY <1>1, <3>1, OtherKeeps
    <3>3. TypeOK'
      BY <1>1, <3>1, OwnersUnchanged DEF ReviewInv, TypeOK
    <3> QED
      BY <1>1, <3>1, <3>2, <3>3, OwnersUnchanged DEF ReviewInv
  <2> QED
    BY <1>1, <2>1, <2>2
<1> QED
  BY <1>1, InitSatisfies, PTL DEF Spec

-----------------------------------------------------------------------------
(* What follows.                                                           *)

\* The types, and that only running transactions hold locks.
THEOREM ReviewTypeCorrect == Spec => []TypeOK
BY ReviewInvariant, PTL DEF ReviewInv

\* Two automatic matches of one address never name two people, whatever
\* reviewers and other workers commit meanwhile.
THEOREM AutomaticEmailStaysUnique == Spec => []AutomaticEmailHasOneOwner
BY ReviewInvariant, PTL DEF ReviewInv

\* The decisions nobody has corrected give a directory account to one entity.
THEOREM UncorrectedSubjectStaysUnique == Spec => []UncorrectedSubjectHasOneOwner
BY ReviewInvariant, PTL DEF ReviewInv

\* The commands and the worker implement the authority: all they do to the
\* decisions is to append to one history per proposal.
THEOREM ReviewFollowsAuthority == Spec => AuthoritySpec
<1>1. Init => AuthorityInit
  BY DEF Init
<1>2. ReviewInv /\ [Next]_vars => [AuthorityNext]_decisions
  <2> SUFFICES ASSUME ReviewInv, [Next]_vars PROVE [AuthorityNext]_decisions
    OBVIOUS
  <2>1. CASE Next
    <3>1. ASSUME NEW a \in Actor, NEW d \in Decision, NEW s \in Subject \cup {Null},
                 Stores(a, d, s)
          PROVE  AuthorityNext
      BY <3>1, AppendMoves DEF Stores, ReviewInv
    <3> QED
      BY <2>1, <3>1, StepStores
  <2>2. CASE UNCHANGED vars
    BY <2>2 DEF vars
  <2> QED
    BY <2>1, <2>2
<1> QED
  BY <1>1, <1>2, ReviewInvariant, PTL DEF Spec, AuthoritySpec

\* A reviewer's decision is never replaced by a match, although the worker
\* chose it before the reviewer decided.
THEOREM ReviewerStaysFinalInReview == Spec => ReviewerIsFinal
BY ReviewFollowsAuthority, ReviewerStaysFinal, PTL

\* What a step of the owners of one account does.
LEMMA StoreKeepsOwned ==
  ASSUME ReviewInv, NEW a, NEW d \in Decision, NEW s \in Subject \cup {Null},
         Stores(a, d, s), NEW r \in Subject, ProviderOwners(r) # {}
  PROVE  ProviderOwners(r)' # {}
<1>1. PICK i \in DecisionId : EffectiveAccepted(i) /\ proof[i] = r
  BY DEF ProviderOwners
<1>2. PICK n \in DecisionId :
        /\ n \notin Stored /\ Stored' = Stored \cup {n}
        /\ decisions'[n] = d /\ proof'[n] = s
        /\ \A j \in Stored : decisions'[j] = decisions[j] /\ proof'[j] = proof[j]
        /\ Effective(d.target)' = {n}
  BY AppendMoves DEF Stores, ReviewInv
<1>3. CASE d.supersedes # i
  <2>1. EffectiveAccepted(i)' /\ proof'[i] = r
    BY <1>1, <1>2, <1>3 DEF EffectiveAccepted
  <2> QED
    BY <2>1 DEF ProviderOwners
<1>4. CASE d.supersedes = i
  <2>1. i # Null
    BY NullAssumption
  <2>2. d.body.entity # Null /\ proof'[n] = r
    BY <1>1, <1>2, <1>4, <2>1 DEF Stores
  <2>3. n \in Stored' /\ \A j \in Stored' : decisions'[j].supersedes # n
    BY <1>2 DEF Effective
  <2>4. EffectiveAccepted(n)'
    BY <1>2, <2>2, <2>3 DEF EffectiveAccepted
  <2> QED
    BY <2>2, <2>4 DEF ProviderOwners
<1> QED
  BY <1>3, <1>4

\* An account that someone owns is owned from then on.
THEOREM OwnedAccountsStayOwned == Spec => OwnedStaysOwned
<1>1. ASSUME ReviewInv, [Next]_vars, NEW r \in Subject, ProviderOwners(r) # {}
      PROVE  ProviderOwners(r)' # {}
  <2>1. CASE UNCHANGED <<decisions, proof>>
    BY <1>1, <2>1 DEF ProviderOwners, EffectiveAccepted, Stored
  <2>2. CASE \E a \in Actor, d \in Decision, s \in Subject \cup {Null} : Stores(a, d, s)
    BY <1>1, <2>2, StoreKeepsOwned
  <2>3. CASE UNCHANGED vars
    BY <2>1, <2>3 DEF vars
  <2> QED
    BY <1>1, <2>1, <2>2, <2>3, StepStores
<1>2. ReviewInv /\ [Next]_vars =>
        [\A s \in Subject : ProviderOwners(s) # {} => ProviderOwners(s)' # {}]_vars
  BY <1>1
<1> QED
  BY <1>2, ReviewInvariant, PTL DEF Spec, OwnedStaysOwned

\* A first review decision is about the version that is current when it is
\* stored: the shared row lock outlives the check.
THEOREM ReviewsStayOfCurrentVersion == Spec => ReviewsAreOfCurrentVersion
<1>1. ASSUME ReviewInv, [Next]_vars, NEW i \in Stored' \ Stored,
             decisions'[i].authority = "reviewer", decisions'[i].supersedes = Null
      PROVE  VersionOf[decisions'[i].target] = current
  <2>1. CASE UNCHANGED <<decisions, proof>>
    BY <1>1, <2>1 DEF Stored
  <2>2. ASSUME NEW a \in Actor, NEW d \in Decision, NEW s \in Subject \cup {Null},
               Stores(a, d, s)
        PROVE  VersionOf[decisions'[i].target] = current
    <3>1. decisions'[i] = d
      BY <1>1, <2>2, AppendMoves DEF Stores, ReviewInv
    <3> QED
      BY <1>1, <2>2, <3>1 DEF Stores
  <2>3. CASE UNCHANGED vars
    BY <2>1, <2>3 DEF vars
  <2> QED
    BY <1>1, <2>1, <2>2, <2>3, StepStores
<1>2. ReviewInv /\ [Next]_vars =>
        [\A i \in Stored' \ Stored :
           decisions'[i].authority = "reviewer" /\ decisions'[i].supersedes = Null
             => VersionOf[decisions'[i].target] = current]_vars
  BY <1>1
<1> QED
  BY <1>2, ReviewInvariant, PTL DEF Spec, ReviewsAreOfCurrentVersion

===============================================================================

----------------------------- MODULE AuthorityTx ------------------------------
(***************************************************************************)
(* AppendResolutionDecision and AppendAdmissionDecision, statement by      *)
(* statement, for concurrent callers under READ COMMITTED: an unlocked     *)
(* look for an exact retry, the target's advisory lock, a second look, the *)
(* switch over the effective decision, and the insert with its unique      *)
(* indexes.  A caller may lose the answer and repeat its command, and two  *)
(* callers may hold the same command or the same ID for different ones.    *)
(***************************************************************************)
EXTENDS Authority

CONSTANTS
  Client,   \* callers, each with its own connection
  Command   \* commands they may issue

ASSUME CommandAssumption == Command \subseteq [id : DecisionId, decision : Decision]
ASSUME ClientAssumption  == Null \notin Client \cup Command

VARIABLES
  lock,    \* [Target -> Client or Null]: the advisory lock of each target
  client   \* the callers' transactions and last answers

txVars == <<decisions, lock, client>>

Statement == {"idle", "begun", "waiting", "locked", "checking", "inserting"}
Answer == {"none", "ok", "conflict", "unknown"}

ClientState == [pc : Statement, command : Command \cup {Null}, answer : Answer]

TxInit ==
  /\ AuthorityInit
  /\ lock = [t \in Target |-> Null]
  /\ client = [c \in Client |-> [pc |-> "idle", command |-> Null, answer |-> "none"]]

TargetOf(c) == client[c].command.decision.target

Goto(c, pc) == client' = [client EXCEPT ![c].pc = pc]

\* Mutant: a session lock outlives the transaction.
ReleaseAtDisconnect(c) == UNCHANGED lock

\* The advisory lock is a transaction lock: any end of the transaction frees it.
Release(c) == lock' = [t \in Target |-> IF lock[t] = c THEN Null ELSE lock[t]]

End(c, answer) ==
  /\ client' = [client EXCEPT ![c].pc = "idle", ![c].answer = answer]
  /\ Release(c)

\* Mutant: the transaction opens before the command is validated.
BeginUnvalidated(c, m) ==
  /\ client[c].pc = "idle"
  /\ client' = [client EXCEPT ![c] = [pc |-> "begun", command |-> Null, answer |-> "none"]]
  /\ UNCHANGED <<decisions, lock>>

Begin(c, m) ==
  /\ client[c].pc = "idle"
  /\ client' = [client EXCEPT ![c] = [pc |-> "begun", command |-> m, answer |-> "none"]]
  /\ UNCHANGED <<decisions, lock>>

\* The stored decision with the command's ID, when there is one.
RetryOf(m) == decisions[m.id]

\* exactResolutionDecisionRetry, exactAdmissionDecisionRetry: an exact retry
\* succeeds, a different decision under the ID conflicts.
LookForRetry(c, next) ==
  LET m == client[c].command
  IN  \/ RetryOf(m) = Null /\ Goto(c, next) /\ UNCHANGED lock
      \/ RetryOf(m) = m.decision /\ End(c, "ok")
      \/ RetryOf(m) \notin {Null, m.decision} /\ End(c, "conflict")

LookUnlocked(c) ==
  /\ client[c].pc = "begun"
  /\ LookForRetry(c, "waiting")
  /\ UNCHANGED decisions

\* lockResolutionProposalAuthority, lockAdmissionTargetAuthority.
Lock(c) ==
  /\ client[c].pc = "waiting"
  /\ lock[TargetOf(c)] = Null
  /\ lock' = [lock EXCEPT ![TargetOf(c)] = c]
  /\ Goto(c, "locked")
  /\ UNCHANGED decisions

\* Mutant: no second look under the lock.
LookLockedSkipped(c) ==
  client[c].pc = "locked" /\ Goto(c, "checking") /\ UNCHANGED <<decisions, lock>>

LookLocked(c) ==
  /\ client[c].pc = "locked"
  /\ LookForRetry(c, "checking")
  /\ UNCHANGED decisions

\* validateAutomaticResolutionAuthority: what it asks of the candidates and
\* the mention is not modelled here, only that it may refuse.
RefuseAutomatic(c) ==
  /\ client[c].pc = "checking"
  /\ client[c].command.decision.authority = "automatic"
  /\ End(c, "conflict")
  /\ UNCHANGED decisions

\* Mutant: the indexes alone are trusted to keep one history.
CheckSkipped(c) ==
  /\ client[c].pc = "checking"
  /\ Goto(c, "inserting")
  /\ UNCHANGED <<decisions, lock>>

\* The predecessor must be the target's effective decision.
Check(c) ==
  /\ client[c].pc = "checking"
  /\ \/ Succeeds(client[c].command.decision) /\ Goto(c, "inserting") /\ UNCHANGED lock
     \/ ~Succeeds(client[c].command.decision) /\ End(c, "conflict")
  /\ UNCHANGED decisions

\* Mutant: INSERT ... ON CONFLICT (id) DO UPDATE.
ViolationOfIndexes(m) ==
  \E i \in Stored :
    /\ decisions[i].supersedes = m.decision.supersedes
    /\ m.decision.supersedes = Null => decisions[i].target = m.decision.target

\* The primary key and the indexes ..._one_initial and ..._one_successor.
UniqueViolation(m) ==
  \/ decisions[m.id] # Null
  \/ \E i \in Stored :
       /\ decisions[i].supersedes = m.decision.supersedes
       /\ m.decision.supersedes = Null => decisions[i].target = m.decision.target

\* INSERT and COMMIT; the caller may never hear of the commit.
Insert(c) ==
  LET m == client[c].command
  IN  /\ client[c].pc = "inserting"
      /\ \/ /\ UniqueViolation(m)
            /\ End(c, "conflict")
            /\ UNCHANGED decisions
         \/ /\ ~UniqueViolation(m)
            /\ decisions' = [decisions EXCEPT ![m.id] = m.decision]
            /\ \E answer \in {"ok", "unknown"} : End(c, answer)

\* The context ends or the connection is lost: rolled back, answer unknown.
Abort(c) ==
  /\ client[c].pc # "idle"
  /\ End(c, "unknown")
  /\ UNCHANGED decisions

Statements(c) ==
  LookUnlocked(c) \/ Lock(c) \/ LookLocked(c) \/ RefuseAutomatic(c) \/ Check(c) \/ Insert(c)

TxNext ==
  \E c \in Client : (\E m \in Command : Begin(c, m)) \/ Statements(c) \/ Abort(c)

TxSpec == TxInit /\ [][TxNext]_txVars

\* A connection executes its statements; waiters for an advisory lock queue,
\* so that none waits forever for a lock that keeps being freed.
TxFairness ==
  \A c \in Client : /\ WF_txVars(LookUnlocked(c) \/ LookLocked(c) \/ Check(c) \/ Insert(c))
                    /\ SF_txVars(Lock(c))

FairTxSpec == TxSpec /\ TxFairness

-----------------------------------------------------------------------------
TxTypeOK ==
  /\ AuthorityTypeOK
  /\ lock \in [Target -> Client \cup {Null}]
  /\ client \in [Client -> ClientState]
  /\ \A c \in Client : client[c].pc # "idle" => client[c].command # Null

\* A caller told "ok" finds exactly its own decision under the ID, then and
\* forever, whoever else appends, corrects or reuses the ID.
AnswersAreDurable ==
  \A c \in Client :
    client[c].answer = "ok" => decisions[client[c].command.id] = client[c].command.decision

\* A command that is already stored is never refused: two callers issuing the
\* same command at once both succeed, and so does a repeat after a lost answer.
RetriesAreRecognised ==
  [][\A c \in Client :
       client'[c].answer = "conflict" /\ client[c].pc # "idle" /\ client'[c].pc = "idle"
         => decisions[client[c].command.id] # client[c].command.decision]_txVars

\* Every command is answered: no caller waits forever for a target's lock.
EventuallyAnswered == \A c \in Client : client[c].pc # "idle" ~> client[c].pc = "idle"

=============================================================================

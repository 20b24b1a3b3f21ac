------------------------- MODULE AuthorityTxProofs --------------------------
(***************************************************************************)
(* Proofs about AuthorityTx, for any targets, IDs, callers and commands:   *)
(* the locked transactions implement the append-only log.                  *)
(***************************************************************************)
EXTENDS AuthorityTx, AuthorityProofs

InLock == {"locked", "checking", "inserting"}

\* What a caller relies on between its statements: it alone holds its target's
\* lock, its ID holds no decision of that target, and what it checked still
\* holds when it inserts.
CallerOK(c) ==
  /\ client[c].pc \in InLock => lock[TargetOf(c)] = c
  /\ client[c].pc \in {"checking", "inserting"} =>
       \/ decisions[client[c].command.id] = Null
       \/ decisions[client[c].command.id].target # TargetOf(c)
  /\ client[c].pc = "inserting" => Succeeds(client[c].command.decision)
  /\ client[c].answer = "ok" => /\ client[c].command # Null
                                /\ decisions[client[c].command.id] = client[c].command.decision

TxInv ==
  /\ TxTypeOK
  /\ SingleHistory
  /\ \A c \in Client : CallerOK(c)

\* A command in a transaction is a command, and its parts have their types.
LEMMA CommandTyped ==
  ASSUME TxTypeOK, NEW c \in Client, client[c].command # Null
  PROVE  /\ client[c].command \in Command
         /\ client[c].command.id \in DecisionId
         /\ client[c].command.decision \in Decision
         /\ client[c].command.decision # Null
         /\ TargetOf(c) \in Target
<1>1. client[c].command \in Command
  BY DEF TxTypeOK, ClientState
<1>2. /\ client[c].command.id \in DecisionId
      /\ client[c].command.decision \in Decision
  BY <1>1, CommandAssumption
<1> QED
  BY <1>1, <1>2, NullAssumption DEF TargetOf, Decision

\* The caller's own record after each way of moving it.
LEMMA GotoMoves ==
  ASSUME TxTypeOK, NEW c \in Client, NEW pc \in Statement, client[c].pc # "idle", Goto(c, pc)
  PROVE  /\ client' \in [Client -> ClientState]
         /\ client'[c].pc = pc
         /\ client'[c].command = client[c].command
         /\ client'[c].answer = client[c].answer
         /\ \A k \in Client : k # c => client'[k] = client[k]
         /\ \A k \in Client : client'[k].pc # "idle" => client'[k].command # Null
BY DEF TxTypeOK, Goto, ClientState

\* The same for the end of a transaction, which frees its own locks and no other.
LEMMA EndMoves ==
  ASSUME TxTypeOK, NEW c \in Client, NEW answer \in Answer, client[c].pc # "idle", End(c, answer)
  PROVE  /\ client' \in [Client -> ClientState]
         /\ client'[c].pc = "idle"
         /\ client'[c].command = client[c].command
         /\ client'[c].answer = answer
         /\ \A k \in Client : k # c => client'[k] = client[k]
         /\ \A k \in Client : client'[k].pc # "idle" => client'[k].command # Null
         /\ lock' \in [Target -> Client \cup {Null}]
         /\ \A t \in Target, k \in Client : k # c /\ lock[t] = k => lock'[t] = k
<1>1. "idle" \in Statement
  BY DEF Statement
<1>2. client' = [client EXCEPT ![c].pc = "idle", ![c].answer = answer]
  BY DEF End
<1>3. lock' = [t \in Target |-> IF lock[t] = c THEN Null ELSE lock[t]]
  BY DEF End, Release
<1>4. lock' \in [Target -> Client \cup {Null}]
  BY <1>3 DEF TxTypeOK
<1>5. \A t \in Target, k \in Client : k # c /\ lock[t] = k => lock'[t] = k
  BY <1>3
<1> QED
  BY <1>1, <1>2, <1>4, <1>5 DEF TxTypeOK, ClientState

\* A caller that a step leaves alone stays consistent while the table and its
\* lock do.
LEMMA OthersKeep ==
  ASSUME TxInv, NEW k \in Client, client'[k] = client[k], UNCHANGED decisions,
         \A t \in Target : lock[t] = k => lock'[t] = k
  PROVE  CallerOK(k)'
<1>1. CallerOK(k)
  BY DEF TxInv
<1>2. client[k].pc \in InLock => TargetOf(k) \in Target
  BY CommandTyped DEF TxInv, TxTypeOK, InLock
<1>3. TargetOf(k)' = TargetOf(k)
  BY DEF TargetOf
<1>4. Succeeds(client[k].command.decision)' = Succeeds(client[k].command.decision)
  BY DEF Succeeds, Effective, Stored
<1> QED
  BY <1>1, <1>2, <1>3, <1>4 DEF CallerOK

\* Ending a transaction without touching the table keeps the invariant.
LEMMA EndKeeps ==
  ASSUME TxInv, NEW c \in Client, NEW answer \in Answer, client[c].pc # "idle",
         End(c, answer), UNCHANGED decisions,
         answer = "ok" => decisions[client[c].command.id] = client[c].command.decision
  PROVE  TxInv'
<1>1. /\ client' \in [Client -> ClientState]
      /\ client'[c].pc = "idle"
      /\ client'[c].command = client[c].command
      /\ client'[c].answer = answer
      /\ \A k \in Client : k # c => client'[k] = client[k]
      /\ \A k \in Client : client'[k].pc # "idle" => client'[k].command # Null
      /\ lock' \in [Target -> Client \cup {Null}]
      /\ \A t \in Target, k \in Client : k # c /\ lock[t] = k => lock'[t] = k
  BY EndMoves DEF TxInv
<1>2. AuthorityTypeOK' /\ SingleHistory'
  BY StutterKeepsSingle DEF TxInv, TxTypeOK
<1>3. CallerOK(c)'
  BY <1>1 DEF CallerOK, InLock, TxInv, TxTypeOK
<1>4. \A k \in Client : k # c => CallerOK(k)'
  BY <1>1, OthersKeep
<1> QED
  BY <1>1, <1>2, <1>3, <1>4 DEF TxInv, TxTypeOK

\* Moving to the next statement keeps the invariant when the caller may claim
\* what that statement relies on.
LEMMA GotoKeeps ==
  ASSUME TxInv, NEW c \in Client, NEW pc \in Statement, client[c].pc # "idle",
         Goto(c, pc), UNCHANGED <<decisions, lock>>,
         pc \in InLock => lock[TargetOf(c)] = c,
         pc \in {"checking", "inserting"} =>
           \/ decisions[client[c].command.id] = Null
           \/ decisions[client[c].command.id].target # TargetOf(c),
         pc = "inserting" => Succeeds(client[c].command.decision)
  PROVE  TxInv'
<1>1. /\ client' \in [Client -> ClientState]
      /\ client'[c].pc = pc
      /\ client'[c].command = client[c].command
      /\ client'[c].answer = client[c].answer
      /\ \A k \in Client : k # c => client'[k] = client[k]
      /\ \A k \in Client : client'[k].pc # "idle" => client'[k].command # Null
  BY GotoMoves DEF TxInv
<1>2. AuthorityTypeOK' /\ SingleHistory'
  BY StutterKeepsSingle DEF TxInv, TxTypeOK
<1>3. TargetOf(c)' = TargetOf(c)
  BY <1>1 DEF TargetOf
<1>4. Succeeds(client[c].command.decision)' <=> Succeeds(client[c].command.decision)
  BY <1>1 DEF Succeeds, Effective, Stored
<1>5. CallerOK(c)
  BY DEF TxInv
<1>6. CallerOK(c)'
  BY <1>1, <1>3, <1>4, <1>5 DEF CallerOK
<1>7. \A k \in Client : k # c => CallerOK(k)'
  BY <1>1, OthersKeep
<1> QED
  BY <1>1, <1>2, <1>6, <1>7 DEF TxInv, TxTypeOK

\* Looking for a retry, unlocked or locked.
LEMMA LookKeeps ==
  ASSUME TxInv, NEW c \in Client, NEW next \in {"waiting", "checking"},
         client[c].pc # "idle", LookForRetry(c, next), UNCHANGED decisions,
         next = "checking" => client[c].pc = "locked"
  PROVE  TxInv'
<1>1. next \in Statement /\ {"ok", "conflict"} \subseteq Answer
  BY DEF Statement, Answer
<1>2. CASE RetryOf(client[c].command) = Null /\ Goto(c, next) /\ UNCHANGED lock
  <2>1. next \in InLock => lock[TargetOf(c)] = c
    BY DEF TxInv, CallerOK, InLock
  <2>2. next # "inserting"
    OBVIOUS
  <2> QED
    BY <1>1, <1>2, <2>1, <2>2, GotoKeeps DEF RetryOf
<1>3. CASE RetryOf(client[c].command) = client[c].command.decision /\ End(c, "ok")
  BY <1>1, <1>3, EndKeeps DEF RetryOf
<1>4. CASE End(c, "conflict")
  BY <1>1, <1>4, EndKeeps
<1> QED
  BY <1>2, <1>3, <1>4 DEF LookForRetry

\* An insert that commits is a step of the log.
LEMMA InsertAppends ==
  ASSUME TxInv, NEW c \in Client, client[c].pc = "inserting",
         ~UniqueViolation(client[c].command),
         decisions' = [decisions EXCEPT ![client[c].command.id] = client[c].command.decision]
  PROVE  AppendRow(client[c].command.id, client[c].command.decision)
<1>1. CallerOK(c)
  BY DEF TxInv
<1> QED
  BY <1>1 DEF AppendRow, CallerOK, UniqueViolation

\* A committed insert keeps every caller consistent: the lock keeps the other
\* callers off the target whose effective decision changed.
LEMMA InsertKeeps ==
  ASSUME TxInv, NEW c \in Client, NEW answer \in {"ok", "unknown"}, client[c].pc = "inserting",
         ~UniqueViolation(client[c].command), End(c, answer),
         decisions' = [decisions EXCEPT ![client[c].command.id] = client[c].command.decision]
  PROVE  TxInv'
<1>1. PICK i \in DecisionId, d \in Decision :
        /\ i = client[c].command.id
        /\ d = client[c].command.decision
  BY CommandTyped DEF TxInv, TxTypeOK
<1>2. AppendRow(i, d)
  BY <1>1, InsertAppends
<1>3. AuthorityTypeOK /\ SingleHistory
  BY DEF TxInv, TxTypeOK
<1>4. AuthorityTypeOK' /\ SingleHistory'
  BY <1>2, <1>3, AppendKeepsSingle
<1>5. /\ i \notin Stored
      /\ decisions'[i] = d
      /\ \A j \in Stored : decisions'[j] = decisions[j]
  BY <1>2, <1>3, AppendAddsOne
<1>6. \A t \in Target : t # d.target => Effective(t)' = Effective(t)
  BY <1>2, <1>3, AppendIsEffective
<1>7. answer \in Answer
  BY DEF Answer
<1>8. /\ client' \in [Client -> ClientState]
      /\ client'[c].pc = "idle"
      /\ client'[c].command = client[c].command
      /\ client'[c].answer = answer
      /\ \A k \in Client : k # c => client'[k] = client[k]
      /\ \A k \in Client : client'[k].pc # "idle" => client'[k].command # Null
      /\ lock' \in [Target -> Client \cup {Null}]
      /\ \A t \in Target, k \in Client : k # c /\ lock[t] = k => lock'[t] = k
  BY <1>7, EndMoves DEF TxInv
<1>9. CallerOK(c)'
  BY <1>1, <1>5, <1>8 DEF CallerOK, InLock, TxInv, TxTypeOK
<1>10. ASSUME NEW k \in Client, k # c PROVE CallerOK(k)'
  <2>1. client'[k] = client[k] /\ TargetOf(k)' = TargetOf(k)
    BY <1>8, <1>10 DEF TargetOf
  <2>2. CallerOK(k) /\ CallerOK(c)
    BY DEF TxInv
  <2>3. client[k].pc \in InLock =>
          /\ client[k].command.id \in DecisionId
          /\ client[k].command.decision \in Decision
          /\ TargetOf(k) \in Target
    BY CommandTyped DEF TxInv, TxTypeOK, InLock
  <2>4. client[k].pc \in InLock => TargetOf(k) # d.target
    BY <1>1, <1>10, <2>2 DEF CallerOK, TargetOf, InLock
  <2>5. client[k].pc \in InLock => lock'[TargetOf(k)] = k
    BY <1>8, <1>10, <2>2, <2>3 DEF CallerOK
  <2>6. client[k].pc \in {"checking", "inserting"} =>
          \/ decisions'[client[k].command.id] = Null
          \/ decisions'[client[k].command.id].target # TargetOf(k)
    BY <1>2, <1>3, <1>5, <2>2, <2>3, <2>4 DEF CallerOK, InLock, AppendRow, AuthorityTypeOK
  <2>7. client[k].pc = "inserting" => Succeeds(client[k].command.decision)'
    <3> SUFFICES ASSUME client[k].pc = "inserting"
                 PROVE  Succeeds(client[k].command.decision)'
      OBVIOUS
    <3>1. PICK e \in Decision : e = client[k].command.decision
      BY <2>3 DEF InLock
    <3>2. e.target # d.target /\ e.target \in Target
      BY <2>3, <2>4, <3>1 DEF TargetOf, InLock
    <3>3. Effective(e.target)' = Effective(e.target)
      BY <1>6, <3>2
    <3>4. Succeeds(e)
      BY <2>2, <3>1 DEF CallerOK
    <3>5. Succeeds(e)'
      BY <3>3, <3>4 DEF Succeeds
    <3> QED
      BY <2>1, <3>1, <3>5 DEF Succeeds, Effective, Stored
  <2>8. client[k].answer = "ok" =>
          /\ client[k].command # Null
          /\ decisions'[client[k].command.id] = client[k].command.decision
    <3> SUFFICES ASSUME client[k].answer = "ok"
                 PROVE  /\ client[k].command # Null
                        /\ decisions'[client[k].command.id] = client[k].command.decision
      OBVIOUS
    <3>1. client[k].command # Null /\ decisions[client[k].command.id] = client[k].command.decision
      BY <2>2 DEF CallerOK
    <3>2. client[k].command.id \in Stored
      BY <3>1, CommandTyped DEF TxInv, Stored
    <3> QED
      BY <1>5, <3>1, <3>2
  <2> QED
    BY <2>1, <2>5, <2>6, <2>7, <2>8 DEF CallerOK
<1> QED
  BY <1>4, <1>8, <1>9, <1>10 DEF TxInv, TxTypeOK

\* Taking a free lock keeps the invariant.
LEMMA LockKeeps ==
  ASSUME TxInv, NEW c \in Client, Lock(c)
  PROVE  TxInv'
<1>1. client[c].pc = "waiting" /\ client[c].command # Null /\ TargetOf(c) \in Target
  BY CommandTyped DEF Lock, TxInv, TxTypeOK
<1>2. /\ client' \in [Client -> ClientState]
      /\ client'[c].pc = "locked"
      /\ client'[c].command = client[c].command
      /\ client'[c].answer = client[c].answer
      /\ \A k \in Client : k # c => client'[k] = client[k]
      /\ \A k \in Client : client'[k].pc # "idle" => client'[k].command # Null
  BY <1>1, GotoMoves DEF Lock, TxInv, Statement
<1>3. AuthorityTypeOK' /\ SingleHistory'
  BY StutterKeepsSingle DEF TxInv, TxTypeOK, Lock
<1>4. /\ lock' \in [Target -> Client \cup {Null}]
      /\ lock'[TargetOf(c)] = c
      /\ \A t \in Target, k \in Client : k # c /\ lock[t] = k => lock'[t] = k
  BY <1>1, ClientAssumption DEF Lock, TxInv, TxTypeOK
<1>5. CallerOK(c)'
  BY <1>2, <1>4 DEF CallerOK, TargetOf, Lock, TxInv
<1>6. \A k \in Client : k # c => CallerOK(k)'
  BY <1>2, <1>4, OthersKeep DEF Lock
<1> QED
  BY <1>2, <1>3, <1>4, <1>5, <1>6 DEF TxInv, TxTypeOK

\* A new command keeps the invariant.
LEMMA BeginKeeps ==
  ASSUME TxInv, NEW c \in Client, NEW m \in Command, Begin(c, m)
  PROVE  TxInv'
<1>1. /\ client' \in [Client -> ClientState]
      /\ client'[c].pc = "begun" /\ client'[c].answer = "none"
      /\ client'[c].command # Null
      /\ \A k \in Client : k # c => client'[k] = client[k]
  BY ClientAssumption DEF Begin, TxInv, TxTypeOK, ClientState, Statement, Answer
<1>2. AuthorityTypeOK' /\ SingleHistory'
  BY StutterKeepsSingle DEF TxInv, TxTypeOK, Begin
<1>3. CallerOK(c)'
  BY <1>1 DEF CallerOK, InLock
<1>4. \A k \in Client : k # c => CallerOK(k)'
  BY <1>1, OthersKeep DEF Begin
<1> QED
  BY <1>1, <1>2, <1>3, <1>4 DEF TxInv, TxTypeOK, Begin

\* Every step of every caller keeps the invariant.
LEMMA TxStepKeeps ==
  ASSUME TxInv, NEW c \in Client, Statements(c) \/ Abort(c)
  PROVE  TxInv'
<1>0. {"ok", "conflict", "unknown"} \subseteq Answer
  BY DEF Answer
<1>1. CASE LookUnlocked(c)
  BY <1>1, LookKeeps DEF LookUnlocked
<1>2. CASE Lock(c)
  BY <1>2, LockKeeps
<1>3. CASE LookLocked(c)
  BY <1>3, LookKeeps DEF LookLocked
<1>4. CASE RefuseAutomatic(c)
  BY <1>0, <1>4, EndKeeps DEF RefuseAutomatic
<1>5. CASE Check(c)
  <2>1. CallerOK(c)
    BY DEF TxInv
  <2>2. CASE Succeeds(client[c].command.decision) /\ Goto(c, "inserting") /\ UNCHANGED lock
    BY <1>5, <2>1, <2>2, GotoKeeps DEF Check, CallerOK, InLock, Statement
  <2>3. CASE End(c, "conflict")
    BY <1>0, <1>5, <2>3, EndKeeps DEF Check
  <2> QED
    BY <1>5, <2>2, <2>3 DEF Check
<1>6. CASE Insert(c)
  <2>1. CASE End(c, "conflict") /\ UNCHANGED decisions
    BY <1>0, <1>6, <2>1, EndKeeps DEF Insert
  <2>2. CASE /\ ~UniqueViolation(client[c].command)
             /\ decisions' = [decisions EXCEPT ![client[c].command.id]
                                                = client[c].command.decision]
             /\ \E answer \in {"ok", "unknown"} : End(c, answer)
    BY <1>6, <2>2, InsertKeeps DEF Insert
  <2> QED
    BY <1>6, <2>1, <2>2 DEF Insert
<1>7. CASE Abort(c)
  BY <1>0, <1>7, EndKeeps DEF Abort
<1> QED
  BY <1>1, <1>2, <1>3, <1>4, <1>5, <1>6, <1>7 DEF Statements

\* The invariant holds at the start, and a stuttering step keeps it.
LEMMA TxInitOK == TxInit => TxInv
<1> SUFFICES ASSUME TxInit PROVE TxInv
  OBVIOUS
<1>1. AuthorityTypeOK /\ SingleHistory
  BY EmptyIsSingle DEF TxInit
<1>2. TxTypeOK
  BY <1>1 DEF TxInit, TxTypeOK, ClientState, Statement, Answer
<1>3. \A c \in Client : CallerOK(c)
  BY DEF TxInit, CallerOK, InLock
<1> QED
  BY <1>1, <1>2, <1>3 DEF TxInv

\* Any step of the system keeps the invariant.
LEMMA TxNextKeeps == TxInv /\ [TxNext]_txVars => TxInv'
<1> SUFFICES ASSUME TxInv, [TxNext]_txVars PROVE TxInv'
  OBVIOUS
<1>1. CASE TxNext
  BY <1>1, BeginKeeps, TxStepKeeps DEF TxNext
<1>2. CASE UNCHANGED txVars
  <2>1. AuthorityTypeOK' /\ SingleHistory'
    BY <1>2, StutterKeepsSingle DEF TxInv, TxTypeOK, txVars
  <2>2. \A c \in Client : CallerOK(c)'
    BY <1>2, OthersKeep DEF txVars
  <2> QED
    BY <1>2, <2>1, <2>2 DEF TxInv, TxTypeOK, txVars
<1> QED
  BY <1>1, <1>2

\* The invariant holds in every reachable state.
LEMMA TxInvariant == TxSpec => []TxInv
BY TxInitOK, TxNextKeeps, PTL DEF TxSpec

\* A step of a transaction is a step of the log, or leaves the table alone.
LEMMA TxStepRefines == TxInv /\ [TxNext]_txVars => [AuthorityNext]_decisions
<1> SUFFICES ASSUME TxInv, [TxNext]_txVars, decisions' # decisions
             PROVE  AuthorityNext
  OBVIOUS
<1>1. PICK c \in Client : Insert(c) /\ decisions' # decisions
  BY DEF TxNext, txVars, Statements, Begin, LookUnlocked, Lock, LookLocked, RefuseAutomatic,
         Check, Abort
<1>2. AppendRow(client[c].command.id, client[c].command.decision)
  BY <1>1, InsertAppends DEF Insert
<1>3. client[c].command.id \in DecisionId /\ client[c].command.decision \in Decision
  BY <1>1, CommandTyped DEF TxInv, TxTypeOK, Insert
<1> QED
  BY <1>2, <1>3 DEF AuthorityNext

\* Whatever the interleaving of statements, aborts and lost answers, the table
\* behaves as if each append had happened at once.
THEOREM TxImplementsAuthority == TxSpec => AuthoritySpec
<1>1. TxInit => AuthorityInit
  BY DEF TxInit
<1> QED
  BY <1>1, TxInvariant, TxStepRefines, PTL DEF TxSpec, AuthoritySpec

\* Every caller's record and every lock stays inside its type, and an open
\* transaction has a command.
THEOREM TxTypeCorrect == TxSpec => []TxTypeOK
<1>1. TxInv => TxTypeOK
  BY DEF TxInv
<1> QED
  BY <1>1, TxInvariant, PTL

\* The transactions keep one unbranched history per target.
THEOREM TxKeepsSingleHistory == TxSpec => []SingleHistory
<1>1. TxInv => SingleHistory
  BY DEF TxInv
<1> QED
  BY <1>1, TxInvariant, PTL

\* A caller answered "ok" has its decision stored, then and forever.
THEOREM TxAnswersAreDurable == TxSpec => []AnswersAreDurable
<1>1. TxInv => AnswersAreDurable
  BY DEF TxInv, CallerOK, AnswersAreDurable
<1> QED
  BY <1>1, TxInvariant, PTL

\* No stored command is refused.
THEOREM TxRetriesAreRecognised == TxSpec => RetriesAreRecognised
<1>1. ASSUME TxInv, TxNext, NEW c \in Client,
             client'[c].answer = "conflict", client[c].pc # "idle", client'[c].pc = "idle"
      PROVE  decisions[client[c].command.id] # client[c].command.decision
  <2>1. PICK k \in Client : (\E m \in Command : Begin(k, m)) \/ Statements(k) \/ Abort(k)
    BY <1>1 DEF TxNext
  <2>2. k = c
    BY <1>1, <2>1
       DEF TxInv, TxTypeOK, Statements, Begin, LookUnlocked, Lock, LookLocked, LookForRetry,
           RefuseAutomatic, Check, Insert, Abort, End, Goto
  <2>3. ~(\E m \in Command : Begin(c, m))
    BY <1>1 DEF Begin
  <2>4. CallerOK(c) /\ client[c].command.decision # Null
    BY <1>1, CommandTyped DEF TxInv, TxTypeOK
  <2>5. client[c].pc \in {"checking", "inserting"} =>
          decisions[client[c].command.id] # client[c].command.decision
    BY <2>4 DEF CallerOK, TargetOf
  <2>0. /\ {"waiting", "checking", "locked"} \subseteq Statement \ {"idle"}
        /\ {"ok", "unknown"} \subseteq Answer \ {"conflict"}
        /\ TxTypeOK
    BY <1>1 DEF Statement, Answer, TxInv
  <2>6. ASSUME NEW next \in {"waiting", "checking"}, LookForRetry(c, next)
        PROVE  decisions[client[c].command.id] # client[c].command.decision
    <3>1. ~Goto(c, next)
      BY <1>1, <2>0, GotoMoves
    <3>2. ~End(c, "ok")
      BY <1>1, <2>0, EndMoves
    <3> QED
      BY <2>6, <3>1, <3>2 DEF LookForRetry, RetryOf
  <2>7. ~Abort(c)
    BY <1>1, <2>0, EndMoves DEF Abort
  <2>8. ~Lock(c)
    BY <1>1, <2>0, GotoMoves DEF Lock
  <2> QED
    BY <2>1, <2>2, <2>3, <2>5, <2>6, <2>7, <2>8
       DEF Statements, LookUnlocked, LookLocked, RefuseAutomatic, Check, Insert
<1>2. TxInv /\ [TxNext]_txVars =>
        [\A c \in Client :
           client'[c].answer = "conflict" /\ client[c].pc # "idle" /\ client'[c].pc = "idle"
             => decisions[client[c].command.id] # client[c].command.decision]_txVars
  BY <1>1
<1> QED
  BY <1>2, TxInvariant, PTL DEF TxSpec, RetriesAreRecognised
===============================================================================

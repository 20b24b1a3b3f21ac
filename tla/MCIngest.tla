------------------------------ MODULE MCIngest -----------------------------
EXTENDS Ingest, TLC

CONSTANTS w1, w2, d1

MCWorkerOne == {w1}
MCVersion == {v \in [document : Document, listed : 1..MaxRevision, body : 1..MaxRevision] :
                v.listed <= v.body}
MCRun == MCVersion \X Config
MCAttemptId == Worker \X (1..MaxClaims)
MCTime == 0..(MaxClock + 1)
MCConfigured == [w \in Worker |-> "extract-v2"]
MCDataMode == [w \in Worker |-> "personal"]
NoSkew == [w \in Worker |-> 0]
Symmetry == Permutations(Worker)

\* The clock of w2 runs one unit ahead, the whole of the cleanup margin.
MarginSkew == [w \in Worker |-> IF w = w2 THEN 1 ELSE 0]
=============================================================================

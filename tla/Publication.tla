---------------------------- MODULE Publication ----------------------------
(***************************************************************************)
(* What ingestion promises its readers, with the leases, clocks, workers   *)
(* and retries left out: each derivation publishes at most one write set,  *)
(* for good, and the current version of a document moves only in the step  *)
(* that publishes a write set of that very version.  Ingest implements it. *)
(***************************************************************************)
CONSTANTS
  Run, Document, Version, Result,
  VersionOf(_),   \* the version a run derives from
  DocumentOf(_),  \* the source document a version belongs to
  Null

VARIABLES
  published,   \* the write set each run has made visible
  current      \* the version review and directory work start from

publicationVars == <<published, current>>

Init ==
  /\ published = [r \in Run |-> Null]
  /\ current = [d \in Document |-> Null]

Publish(r, result) ==
  /\ published[r] = Null
  /\ published' = [published EXCEPT ![r] = result]
  /\ current' = [current EXCEPT ![DocumentOf(VersionOf(r))] = VersionOf(r)]

Next == \E r \in Run, result \in Result : Publish(r, result)

Spec == Init /\ [][Next]_publicationVars

=============================================================================

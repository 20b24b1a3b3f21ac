----------------------------- MODULE KnowledgeScope ------------------------------
(* The recorded-time scope of a question (core/temporal/plan.go).            *)
EXTENDS Integers

CONSTANT Current     \* the scope without a cutoff: what is known now

\* The cutoff is inclusive.
InScope(cutoff, date) == cutoff = Current \/ date <= cutoff
=============================================================================

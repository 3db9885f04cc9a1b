--------------------------- MODULE MCSafeProposals ---------------------------
(* Instances of SafeProposals for TLC: a top-up of a publisher that is spelled *)
(* the service's way may be asked for again while one is unfinished.           *)
EXTENDS SafeProposals

TwoIfChecksummed == [p \in Publishers |-> IF p \in Checksummed THEN 2 ELSE 1]
==============================================================================

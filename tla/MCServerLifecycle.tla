-------------------------- MODULE MCServerLifecycle --------------------------
(* Two networks and two of the kinds of scraper.                               *)
EXTENDS ServerLifecycle

CONSTANTS n1, n2

TwoNetworks == <<n1, n2>>
TwoKinds == <<"publisher", "entry-queue">>
TwoAndNone == [n \in {n1, n2} |-> IF n = n1 THEN 2 ELSE 0]
OneEach == [n \in {n1, n2} |-> 1]
OneKind == <<"entry-queue">>
==============================================================================

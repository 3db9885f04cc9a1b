----------------------------- MODULE DailyLedger -----------------------------
(***************************************************************************)
(* What the sheets exporter promises of a tab: a ledger that only grows, by *)
(* one row a day, each row the difference between two recorded boundaries.  *)
(* Nothing here knows of requests, marks, splices or processes.             *)
(*                                                                         *)
(* A ledger is settled while its owner vouches for it.  It is not while an  *)
(* operator rebuilds it, after a rebuild that died half-way, and as long as *)
(* nobody can read how far it goes; then nothing is promised of it.         *)
(***************************************************************************)
EXTENDS Integers, Sequences

CONSTANT ClaimedBy   \* rewards claimed up to a block

VARIABLES
  settled,
  rows,   \* the rows the ledger stands by
  at      \* where they end: block, day and balance

Genesis == [block |-> 0, day |-> 0, bal |-> 0]

Init == ~settled /\ rows = <<>> /\ at = Genesis

\* The claims of a period: none where it ends before it begins.
Claims(from, to) == IF from >= to THEN 0 ELSE ClaimedBy[to] - ClaimedBy[from]

\* The next day: its period begins where the last one ended.
Record ==
  /\ settled /\ settled'
  /\ at'.day = at.day + 1
  /\ rows' = Append(rows, [day |-> at'.day,
                           accrued |-> at'.bal - at.bal + Claims(at.block, at'.block)])

\* The owner begins to rebuild it, or loses count.
Unsettle == settled /\ ~settled' /\ rows' = <<>> /\ at' = Genesis

\* A rebuilt ledger again has every day up to some day, once and in order.
Settle ==
  /\ ~settled /\ settled'
  /\ Len(rows') = at'.day
  /\ \A i \in DOMAIN rows' : rows'[i].day = i

Next == Record \/ Unsettle \/ Settle

Spec == Init /\ [][Next]_<<settled, rows, at>>
==============================================================================

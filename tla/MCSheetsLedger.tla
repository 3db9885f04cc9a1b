--------------------------- MODULE MCSheetsLedger ---------------------------
(***************************************************************************)
(* Instance for TLC: two slots a day, one unit earned per block plus a     *)
(* bonus in block 2, and one claim, of everything there is, in block 1 and *)
(* in block 3.                                                             *)
(***************************************************************************)
EXTENDS SheetsLedger

EarnedRewards == [b \in Blocks |-> IF b >= 2 THEN b + 3 ELSE b]
ClaimedRewards == [b \in Blocks |-> IF b >= 3 THEN 6 ELSE IF b >= 1 THEN 1 ELSE 0]
=============================================================================
